---- MODULE Spec2Model ----
(***************************************************************************)
(* Model of the event-sourced synchronisation engine of coinstr-sdk        *)
(* (crates/coinstr-sdk/src/client/sync.rs): the event dispatcher           *)
(* handle_event, the pending-event re-drive loop handle_pending_events,    *)
(* and the single-flight start/stop protocol of sync().                    *)
(*                                                                         *)
(* The store behind self.db is not part of the sources at hand; its        *)
(* operations are modelled from the written contract of the Vault Store    *)
(* and are the lower-case operators named after the db methods.            *)
(*                                                                         *)
(* One call of handle_event is one step: the calls made by the relay loop  *)
(* and by the re-drive loop interleave call by call, not statement by      *)
(* statement.  sync() and the Stop/Shutdown arm are modelled statement by  *)
(* statement.                                                              *)
(*                                                                         *)
(* Further parts: the relay subscriptions and last-sync watermarks, the    *)
(* four background loops, the NostrConnect branch of handle_event, and     *)
(* the policies of smartvaults-core (src/crates/smartvaults-core/src/      *)
(* policy/mod.rs) with their selectable conditions, policy paths,         *)
(* templates and spend; the CoreSigner of smartvaults-core/src/signer.rs;  *)
(* the vaults of smartvaults-sdk/src/client/vault.rs; and the proposals   *)
(* in their protobuf form (smartvaults-protocol/src/v2/proposal/proto.rs). *)
(* The wallet and its transaction builder are a library: they are modelled *)
(* by what they do for the calls that spend makes.                         *)
(***************************************************************************)
EXTENDS Naturals, Sequences, FiniteSets, TLC

VARIABLES
    relay,      \* the events the relays hold and may deliver (fixed per behaviour)
    db,         \* self.db: the store, one field per table
    sent,       \* sync_channel: how many times each notification was sent
    call,       \* the last handle_event invocation: where from, which event
    ret,        \* what that invocation returned
    batch,      \* handle_pending_events: events of the current tick still to handle
    stale,      \* events whose created_at + 600 s now lies in the past
    syncing,    \* self.syncing: the single-flight guard
    pc,         \* position of each thread inside sync()
    sup,        \* the threads spawned by sync(): state, live tasks, Stop-arm progress
    now,        \* Timestamp::now()
    subs,       \* per relay, the filters of its subscription (relay.subscribe)
    msg,        \* the last relay message the notification loop handled
    expired,    \* events whose expiration tag now lies in the past
    logged,     \* events for which "Event .. expired" was logged
    loop,       \* per spawned thread, the event its loop has inside handle_event
    pend,       \* the event the re-drive loop has inside handle_event
    delivered,  \* per spawned thread, the events its stream has delivered
    returned,   \* per spawned thread, the events for which handle_event returned
    bg,         \* per background loop: where it is, what its last operation
                \* returned, how many errors it has logged
    up,         \* the relays of the NostrConnect sessions can be reached
    outbox,     \* per NostrConnect request, the responses sent for it
    policy,     \* the Policy built by from_descriptor or from_policy
    result,     \* the last call on the policy: its network and what it returned
    wallet,     \* the wallet of the policy: unspent outputs and latest checkpoint
    spending,   \* the last spend call: its arguments, the coins selected
    core_signer, \* the CoreSigner that was composed
    sdk,        \* the vaults of the client, their events and wallets
    proto       \* the last conversion of a proposal to or from its protobuf form

vars == <<relay, db, sent, call, ret, batch, stale, syncing, pc, sup, now, subs, msg,
          expired, logged, loop, pend, delivered, returned, bg, up, outbox,
          policy, result, wallet, spending, core_signer, sdk, proto>>

dispatchVars == <<relay, db, sent, call, ret, batch, stale>>
syncVars == <<syncing, pc, sup>>
clockVars == <<now, subs, msg>>
expiryVars == <<expired, logged>>
flightVars == <<loop, pend, delivered, returned>>
polVars == <<policy, result, wallet, spending, core_signer, sdk, proto>>
sideVars == <<bg, up, outbox, polVars>>
netVars == <<clockVars, expiryVars, flightVars, sideVars>>

(***************************************************************************)
(* Bounds                                                                  *)
(***************************************************************************)
\* how often one notification may be put on the channel before sends stop
MaxSent == 2
\* threads that call sync()
NumCallers == 2
\* threads sync() may spawn in one behaviour
MaxStarts == 3
\* the clock runs from 1 to MaxTime
MaxTime == 3
\* errors one background loop may log before its operations stop failing
MaxErrors == 2
\* items one read of a background loop may return
MaxBatch == 2
\* the keys of a policy
MaxKeys == 3
\* the outputs a wallet holds
MaxUtxos == 2
\* the height of the chain a wallet has synced to
MaxHeight == 3
\* the vaults a client makes or receives
MaxVaults == 2
\* recipients of a spending proposal
MaxRecipients == 2

(***************************************************************************)
(* Event kinds (crate::constants and nostr_sdk::Kind)                      *)
(***************************************************************************)
SHARED_KEY_KIND == "SharedKey"
POLICY_KIND == "Policy"
PROPOSAL_KIND == "Proposal"
APPROVED_PROPOSAL_KIND == "ApprovedProposal"
COMPLETED_PROPOSAL_KIND == "CompletedProposal"
SIGNERS_KIND == "Signers"
SHARED_SIGNERS_KIND == "SharedSigners"
KindEventDeletion == "EventDeletion"
KindContactList == "ContactList"
KindMetadata == "Metadata"
KindNostrConnect == "NostrConnect"

NoKey == "NoKey"
NoPk == "-"
\* the public key of self.client.keys()
MyPublicKey == "me"

(***************************************************************************)
(* The events of the relays.  key: the key the content is encrypted with   *)
(* (for a SharedKey event, the key it carries).  ok: the content decrypts  *)
(* with the local keys and parses.                                         *)
(***************************************************************************)
Ev(id, kind, pubkey, etags, ptags, key, ok) ==
    [id |-> id, kind |-> kind, pubkey |-> pubkey, etags |-> etags,
     ptags |-> ptags, key |-> key, ok |-> ok]

EvPolicy == Ev(1, POLICY_KIND, "me", <<>>, <<"me", "alice">>, "K1", TRUE)
EvSharedKey == Ev(2, SHARED_KEY_KIND, "alice", <<1>>, <<"me">>, "K1", TRUE)
EvProposal == Ev(3, PROPOSAL_KIND, "alice", <<1>>, <<"me">>, "K1", TRUE)
EvApproved == Ev(4, APPROVED_PROPOSAL_KIND, "alice", <<3, 1>>, <<"me">>, "K1", TRUE)
EvCompleted == Ev(5, COMPLETED_PROPOSAL_KIND, "alice", <<3, 1>>, <<"me">>, "K1", TRUE)
EvDeletionByBob == Ev(6, KindEventDeletion, "bob", <<1>>, <<>>, NoKey, TRUE)
EvDeletionByMe == Ev(7, KindEventDeletion, "me", <<1>>, <<>>, NoKey, TRUE)
EvSharedSigner == Ev(8, SHARED_SIGNERS_KIND, "alice", <<>>, <<"me">>, NoKey, TRUE)
EvDeletionMixed == Ev(9, KindEventDeletion, "alice", <<1, 8>>, <<>>, NoKey, TRUE)
EvSigner == Ev(10, SIGNERS_KIND, "me", <<>>, <<>>, NoKey, TRUE)
EvMySharedSigner == Ev(11, SHARED_SIGNERS_KIND, "me", <<10>>, <<"alice">>, NoKey, TRUE)
EvContactsA == Ev(12, KindContactList, "me", <<>>, <<"alice">>, NoKey, TRUE)
EvContactsB == Ev(13, KindContactList, "me", <<>>, <<"alice", "bob">>, NoKey, TRUE)
EvMetadataA == Ev(14, KindMetadata, "me", <<>>, <<>>, NoKey, TRUE)
EvMetadataB == Ev(15, KindMetadata, "me", <<>>, <<>>, NoKey, TRUE)
EvMetadataBad == Ev(16, KindMetadata, "me", <<>>, <<>>, NoKey, FALSE)
EvSharedKeyNoTag == Ev(17, SHARED_KEY_KIND, "alice", <<>>, <<"me">>, "K1", TRUE)
EvSharedKeyOther == Ev(18, SHARED_KEY_KIND, "bob", <<1>>, <<"me">>, "K2", TRUE)
EvApprovedOneTag == Ev(19, APPROVED_PROPOSAL_KIND, "alice", <<3>>, <<"me">>, "K1", TRUE)
EvPolicyNoMembers == Ev(20, POLICY_KIND, "me", <<>>, <<>>, "K1", TRUE)
EvSharedKey20 == Ev(21, SHARED_KEY_KIND, "alice", <<20>>, <<"me">>, "K1", TRUE)
\* a proposal that carries an expiration tag
EvProposalExp == Ev(22, PROPOSAL_KIND, "alice", <<1>>, <<"me">>, "K1", TRUE)

\* completed proposals for the proposal of EvProposal: without the e-tag of
\* the vault, naming a vault whose key is not known, and encrypted with
\* another key than that of the vault
EvCompletedOneTag == Ev(23, COMPLETED_PROPOSAL_KIND, "bob", <<3>>, <<"me">>, "K1", TRUE)
EvCompletedNoKey == Ev(24, COMPLETED_PROPOSAL_KIND, "bob", <<3, 20>>, <<"me">>, "K1", TRUE)
EvCompletedBadKey == Ev(25, COMPLETED_PROPOSAL_KIND, "bob", <<3, 1>>, <<"me">>, "K2", TRUE)

\* NostrConnect messages of an app with a session, and of a stranger
EvConnectSign == Ev(30, KindNostrConnect, "app", <<>>, <<"me">>, NoKey, TRUE)
EvConnectConnect == Ev(31, KindNostrConnect, "app", <<>>, <<"me">>, NoKey, TRUE)
EvConnectGetPk == Ev(32, KindNostrConnect, "app", <<>>, <<"me">>, NoKey, TRUE)
EvConnectDisconnect == Ev(33, KindNostrConnect, "app", <<>>, <<"me">>, NoKey, TRUE)
EvConnectStranger == Ev(34, KindNostrConnect, "stranger", <<>>, <<"me">>, NoKey, TRUE)

\* msg.to_request(): the request a NostrConnect message carries
RequestOf(e) ==
    IF e.id = EvConnectConnect.id THEN "Connect"
    ELSE IF e.id = EvConnectGetPk.id THEN "GetPublicKey"
    ELSE IF e.id = EvConnectDisconnect.id THEN "Disconnect"
    ELSE "SignEvent"

\* one vault through its life
ScenarioVault == {EvPolicy, EvSharedKey, EvProposal, EvApproved, EvCompleted}
\* deletions by the author and by others
ScenarioDeletion == {EvPolicy, EvSharedKey, EvDeletionByBob, EvDeletionByMe,
                     EvSharedSigner, EvDeletionMixed}
\* signers, contacts, profiles
ScenarioSigners == {EvSharedSigner, EvSigner, EvMySharedSigner, EvContactsA,
                    EvContactsB, EvMetadataA, EvMetadataB, EvMetadataBad}
\* events that are refused
ScenarioMalformed == {EvPolicy, EvSharedKey, EvSharedKeyNoTag, EvSharedKeyOther,
                      EvApprovedOneTag, EvPolicyNoMembers, EvSharedKey20}

Scenarios == {ScenarioVault, ScenarioDeletion, ScenarioSigners, ScenarioMalformed}
\* the events that wait for the shared key, with the key
ScenarioParking == {EvSharedKey, EvPolicy, EvProposal, EvApproved}
ScenarioCompletion == {EvSharedKey, EvPolicy, EvProposal, EvCompleted}
FairScenarios == {ScenarioParking, ScenarioCompletion}
\* a vault and a proposal for it that expires
ScenarioExpiry == {EvSharedKey, EvPolicy, EvProposalExp}
\* the requests of a remote app
ScenarioConnect == {EvConnectSign, EvConnectConnect, EvConnectGetPk, EvConnectDisconnect,
                    EvConnectStranger}
\* a vault with a proposal, and a completion of it that cannot be saved
ScenarioUnsavedCompletion ==
    {{EvSharedKey, EvPolicy, EvProposal, c} :
        c \in {EvCompletedOneTag, EvCompletedNoKey, EvCompletedBadKey}}
\* the events that carry an expiration tag
WithExpiration == {EvProposalExp.id}
AllEvents ==
    UNION (Scenarios \cup {ScenarioExpiry, ScenarioConnect} \cup ScenarioUnsavedCompletion)
ConnectEvents == {e.id : e \in {x \in AllEvents : x.kind = KindNostrConnect}}
EventById(id) == CHOOSE e \in AllEvents : e.id = id

Range(s) == {s[i] : i \in DOMAIN s}

(***************************************************************************)
(* Notifications (types/notification.rs and the constructors in sync.rs)   *)
(***************************************************************************)
NewPolicy(id) == [type |-> "NewPolicy", id |-> id, pk |-> NoPk]
NewProposal(id) == [type |-> "NewProposal", id |-> id, pk |-> NoPk]
NewApproval(proposal_id, public_key) ==
    [type |-> "NewApproval", id |-> proposal_id, pk |-> public_key]
NewCompletedProposal(id) == [type |-> "NewCompletedProposal", id |-> id, pk |-> NoPk]
NewSharedSigner(shared_signer_id, owner_public_key) ==
    [type |-> "NewSharedSigner", id |-> shared_signer_id, pk |-> owner_public_key]
NoNotification == [type |-> "-", id |-> 0, pk |-> NoPk]

Notifications ==
    {NewPolicy(e.id) : e \in {x \in AllEvents : x.kind = POLICY_KIND}}
    \cup {NewProposal(e.id) : e \in {x \in AllEvents : x.kind = PROPOSAL_KIND}}
    \cup {NewApproval(e.etags[1], e.pubkey) :
            e \in {x \in AllEvents : x.kind = APPROVED_PROPOSAL_KIND /\ Len(x.etags) > 0}}
    \cup {NewCompletedProposal(e.id) :
            e \in {x \in AllEvents : x.kind = COMPLETED_PROPOSAL_KIND}}
    \cup {NewSharedSigner(e.id, e.pubkey) :
            e \in {x \in AllEvents : x.kind = SHARED_SIGNERS_KIND}}

\* Result<Option<Message>>
RetNone == [tag |-> "None", n |-> NoNotification]
RetErr == [tag |-> "Err", n |-> NoNotification]
RetSome(n) == [tag |-> "Some", n |-> n]
\* resp: the NostrConnect responses the call sent
Out(d, r) == [db |-> d, ret |-> r, resp |-> 0]
OutSent(d, r) == [db |-> d, ret |-> r, resp |-> 1]

(***************************************************************************)
(* The store (self.db).  Modelled from the Vault Store contract: tables    *)
(* keyed by id, saves idempotent by id, pending events first in first out. *)
(***************************************************************************)
EmptyDb ==
    [events |-> {}, deleted |-> {}, shared_keys |-> {}, policies |-> {},
     proposals |-> {}, approved_proposals |-> {}, completed_proposals |-> {},
     signers |-> {}, my_shared_signers |-> {}, shared_signers |-> {},
     contacts |-> {}, metadata |-> {}, notifications |-> {},
     pending_events |-> <<>>, sync_schedule |-> {}, last_relay_sync |-> {},
     nostr_connect_sessions |-> {}, nostr_connect_pre_authorizations |-> {},
     nostr_connect_requests |-> {}]

event_was_deleted(d, id) == id \in d.deleted
save_event(d, e) == [d EXCEPT !.events = @ \cup {e.id}]
\* Ok(event) exactly for a saved event; the caller reads its pubkey
get_event_by_id(d, id) == id \in d.events

shared_key_exists_for_policy(d, policy_id) ==
    \E k \in d.shared_keys : k.policy_id = policy_id
\* NoKey stands for Err
get_shared_key(d, policy_id) ==
    IF shared_key_exists_for_policy(d, policy_id)
    THEN (CHOOSE k \in d.shared_keys : k.policy_id = policy_id).key
    ELSE NoKey
save_shared_key(d, policy_id, key) ==
    IF shared_key_exists_for_policy(d, policy_id) THEN d
    ELSE [d EXCEPT !.shared_keys = @ \cup {[policy_id |-> policy_id, key |-> key]}]

policy_exists(d, id) == \E p \in d.policies : p.policy_id = id
proposal_exists(d, id) == \E p \in d.proposals : p.proposal_id = id
approved_proposal_exists(d, id) == \E a \in d.approved_proposals : a.approval_id = id
completed_proposal_exists(d, id) ==
    \E c \in d.completed_proposals : c.completed_proposal_id = id

\* save_policy rejects an empty member list
save_policy_ok(d, id, nostr_pubkeys) == nostr_pubkeys # {}
save_policy(d, id, nostr_pubkeys) ==
    IF policy_exists(d, id) THEN d
    ELSE [d EXCEPT !.policies = @ \cup {[policy_id |-> id, members |-> nostr_pubkeys]}]

\* save_proposal: the vault must exist
save_proposal_ok(d, id, policy_id) == policy_exists(d, policy_id)
save_proposal(d, id, policy_id) ==
    IF proposal_exists(d, id) THEN d
    ELSE [d EXCEPT !.proposals = @ \cup {[proposal_id |-> id, policy_id |-> policy_id]}]

\* save_approved_proposal: the proposal must exist
save_approved_proposal_ok(d, proposal_id) == proposal_exists(d, proposal_id)
save_approved_proposal(d, proposal_id, public_key, id) ==
    IF approved_proposal_exists(d, id) THEN d
    ELSE [d EXCEPT !.approved_proposals = @ \cup
            {[approval_id |-> id, proposal_id |-> proposal_id, public_key |-> public_key]}]

save_completed_proposal(d, id, policy_id) ==
    IF completed_proposal_exists(d, id) THEN d
    ELSE [d EXCEPT !.completed_proposals = @ \cup
            {[completed_proposal_id |-> id, policy_id |-> policy_id]}]

schedule_for_sync(d, policy_id) == [d EXCEPT !.sync_schedule = @ \cup {policy_id}]

save_notification(d, id, n) ==
    [d EXCEPT !.notifications = @ \cup {[event_id |-> id, notification |-> n]}]

save_signer(d, id) == [d EXCEPT !.signers = @ \cup {id}]
save_my_shared_signer(d, signer_id, id, public_key) ==
    [d EXCEPT !.my_shared_signers = @ \cup
        {[signer_id |-> signer_id, shared_signer_id |-> id, public_key |-> public_key]}]
save_shared_signer(d, id, owner_public_key) ==
    [d EXCEPT !.shared_signers = @ \cup
        {[shared_signer_id |-> id, owner_public_key |-> owner_public_key]}]

save_contacts(d, contacts) == [d EXCEPT !.contacts = contacts]
set_metadata(d, public_key, metadata) ==
    [d EXCEPT !.metadata = {m \in @ : m.public_key # public_key}
                            \cup {[public_key |-> public_key, metadata |-> metadata]}]

\* first in, first out; an event already parked keeps its place
save_pending_event(d, e) ==
    IF e.id \in Range(d.pending_events) THEN d
    ELSE [d EXCEPT !.pending_events = Append(@, e.id)]
get_pending_events(d) == d.pending_events

\* the per-relay last-sync watermark: one row per relay once it was saved
last_relay_sync_exists(d, relay_url) == \E w \in d.last_relay_sync : w.relay_url = relay_url
\* meaningful when the row exists; the caller handles Err otherwise
get_last_relay_sync(d, relay_url) ==
    (CHOOSE w \in d.last_relay_sync : w.relay_url = relay_url).timestamp
save_last_relay_sync(d, relay_url, timestamp) ==
    [d EXCEPT !.last_relay_sync = {w \in @ : w.relay_url # relay_url}
                \cup {[relay_url |-> relay_url, timestamp |-> timestamp]}]

\* the sessions of remote apps, by the public key of the app
nostr_connect_session_exists(d, app_public_key) ==
    app_public_key \in d.nostr_connect_sessions
save_nostr_connect_uri(d, app_public_key) ==
    [d EXCEPT !.nostr_connect_sessions = @ \cup {app_public_key}]
delete_nostr_connect_session(d, app_public_key) ==
    [d EXCEPT !.nostr_connect_sessions = @ \ {app_public_key}]
\* pre-authorized: now < pre_auth_until
is_nostr_connect_session_pre_authorized(d, app_public_key) ==
    app_public_key \in d.nostr_connect_pre_authorizations
set_nostr_connect_auto_approve(d, app_public_key) ==
    [d EXCEPT !.nostr_connect_pre_authorizations = @ \cup {app_public_key}]
revoke_nostr_connect_auto_approve(d, app_public_key) ==
    [d EXCEPT !.nostr_connect_pre_authorizations = @ \ {app_public_key}]
\* the requests, by event id; a request saved already stays as it is
nostr_connect_request_exists(d, event_id) ==
    \E q \in d.nostr_connect_requests : q.event_id = event_id
save_nostr_connect_request(d, event_id, app_public_key, approved) ==
    IF nostr_connect_request_exists(d, event_id) THEN d
    ELSE [d EXCEPT !.nostr_connect_requests = @ \cup
            {[event_id |-> event_id, app_public_key |-> app_public_key,
              approved |-> approved]}]

\* the entity an event produced, in whichever table it lives
EntityOf(d, id) ==
    [policies |-> {p \in d.policies : p.policy_id = id},
     proposals |-> {p \in d.proposals : p.proposal_id = id},
     approved_proposals |-> {a \in d.approved_proposals : a.approval_id = id},
     completed_proposals |->
        {c \in d.completed_proposals : c.completed_proposal_id = id},
     signers |-> d.signers \cap {id},
     my_shared_signers |-> {m \in d.my_shared_signers : m.shared_signer_id = id},
     shared_signers |-> {m \in d.shared_signers : m.shared_signer_id = id}]
NoEntity == EntityOf(EmptyDb, 0)

\* removes the proposal and marks its event deleted; a no-op if unknown
delete_proposal(d, id) ==
    IF ~proposal_exists(d, id) THEN d
    ELSE [d EXCEPT !.proposals = {p \in @ : p.proposal_id # id},
                   !.deleted = @ \cup {id}]

\* removes whichever entity this event produced; idempotent; a no-op if unknown
delete_generic_event_id(d, id) ==
    IF EntityOf(d, id) = NoEntity THEN d
    ELSE [d EXCEPT
            !.policies = {p \in @ : p.policy_id # id},
            !.proposals = {p \in @ : p.proposal_id # id},
            !.approved_proposals = {a \in @ : a.approval_id # id},
            !.completed_proposals = {c \in @ : c.completed_proposal_id # id},
            !.signers = @ \ {id},
            !.my_shared_signers = {m \in @ : m.shared_signer_id # id},
            !.shared_signers = {m \in @ : m.shared_signer_id # id},
            !.deleted = @ \cup {id}]

(***************************************************************************)
(* util: tag extraction                                                    *)
(***************************************************************************)
HasFirstEventId(e) == Len(e.etags) >= 1
extract_first_event_id(e) == e.etags[1]
\* extract_tags_by_kind(&event, TagKind::E).get(1)
HasSecondEventId(e) == Len(e.etags) >= 2
SecondEventId(e) == e.etags[2]
HasFirstPublicKey(e) == Len(e.ptags) >= 1
extract_first_public_key(e) == e.ptags[1]

\* decrypt_with_keys(&shared_key, &event.content): Ok exactly under the key
\* the content was encrypted with
DecryptsWith(shared_key, e) == shared_key = e.key

(***************************************************************************)
(* handle_event, one operator per branch.  Each yields the store after the *)
(* branch and the value returned; an Err keeps what was written before it. *)
(***************************************************************************)
\* the event dropped instead of parked
ParkDropped(d, e) == Out(d, RetNone)
\* self.db.save_pending_event(&event)?, after which handle_event ends Ok(None)
Park(d, e) == Out(save_pending_event(d, e), RetNone)

\* the branch without the look-up of 259, on a store that replaces the key
SharedKeyBranchReplacing(d, e) ==
    IF ~HasFirstEventId(e) THEN Out(d, RetErr)
    ELSE LET policy_id == extract_first_event_id(e) IN
         IF ~e.ok THEN Out(d, RetErr)
         ELSE Out([d EXCEPT !.shared_keys =
                        {k \in @ : k.policy_id # policy_id}
                            \cup {[policy_id |-> policy_id, key |-> e.key]}],
                  RetNone)

SharedKeyBranch(d, e) ==
    IF ~HasFirstEventId(e) THEN Out(d, RetErr)
    ELSE LET policy_id == extract_first_event_id(e) IN
         IF shared_key_exists_for_policy(d, policy_id) THEN Out(d, RetNone)
         ELSE IF ~e.ok THEN Out(d, RetErr)
         ELSE Out(save_shared_key(d, policy_id, e.key), RetNone)

\* the author of the event counted among the members
PubKeyTagsWithAuthor(e) == Range(e.ptags) \cup {e.pubkey}
\* the loop over event.tags that collects every Tag::PubKey
PubKeyTags(e) == Range(e.ptags)

PolicyBranch(d, e) ==
    LET shared_key == get_shared_key(d, e.id) IN
    IF shared_key # NoKey
    THEN IF ~DecryptsWith(shared_key, e) THEN Out(d, RetErr)
         ELSE LET nostr_pubkeys == PubKeyTags(e) IN
              IF nostr_pubkeys = {} THEN Out(d, RetNone)
              ELSE IF ~save_policy_ok(d, e.id, nostr_pubkeys) THEN Out(d, RetErr)
              ELSE Out(save_notification(save_policy(d, e.id, nostr_pubkeys),
                                         e.id, NewPolicy(e.id)),
                       RetSome(NewPolicy(e.id)))
    ELSE Park(d, e)

ProposalBranch(d, e) ==
    IF HasFirstEventId(e)
    THEN LET policy_id == extract_first_event_id(e)
             shared_key == get_shared_key(d, policy_id) IN
         IF shared_key # NoKey
         THEN IF ~DecryptsWith(shared_key, e) THEN Out(d, RetErr)
              ELSE IF ~save_proposal_ok(d, e.id, policy_id) THEN Out(d, RetErr)
              ELSE Out(save_notification(save_proposal(d, e.id, policy_id),
                                         e.id, NewProposal(e.id)),
                       RetSome(NewProposal(e.id)))
         ELSE Park(d, e)
    ELSE Out(d, RetNone)

\* the policy id read from the first e-tag instead of the second
ApprovedProposalBranchFirstTag(d, e) ==
    IF HasFirstEventId(e)
    THEN LET proposal_id == extract_first_event_id(e) IN
         IF HasSecondEventId(e)
         THEN LET policy_id == extract_first_event_id(e)
                  shared_key == get_shared_key(d, policy_id)
                  notification == NewApproval(proposal_id, e.pubkey) IN
              IF shared_key # NoKey
              THEN IF ~DecryptsWith(shared_key, e) THEN Out(d, RetErr)
                   ELSE IF ~save_approved_proposal_ok(d, proposal_id) THEN Out(d, RetErr)
                   ELSE Out(save_notification(
                                save_approved_proposal(d, proposal_id, e.pubkey, e.id),
                                e.id, notification),
                            RetSome(notification))
              ELSE Park(d, e)
         ELSE Out(d, RetNone)
    ELSE Out(d, RetNone)

ApprovedProposalBranch(d, e) ==
    IF HasFirstEventId(e)
    THEN LET proposal_id == extract_first_event_id(e) IN
         IF HasSecondEventId(e)
         THEN LET policy_id == SecondEventId(e)
                  shared_key == get_shared_key(d, policy_id)
                  notification == NewApproval(proposal_id, e.pubkey) IN
              IF shared_key # NoKey
              THEN IF ~DecryptsWith(shared_key, e) THEN Out(d, RetErr)
                   ELSE IF ~save_approved_proposal_ok(d, proposal_id) THEN Out(d, RetErr)
                   ELSE Out(save_notification(
                                save_approved_proposal(d, proposal_id, e.pubkey, e.id),
                                e.id, notification),
                            RetSome(notification))
              ELSE Park(d, e)
         ELSE Out(d, RetNone)
    ELSE Out(d, RetNone)

\* fresh: event.created_at + 600 s >= Timestamp::now()
CompletedProposalBranch(d, e, fresh) ==
    IF HasFirstEventId(e)
    THEN LET proposal_id == extract_first_event_id(e)
             d1 == delete_proposal(d, proposal_id) IN
         IF HasSecondEventId(e)
         THEN LET policy_id == SecondEventId(e)
                  d2 == IF fresh THEN schedule_for_sync(d1, policy_id) ELSE d1
                  shared_key == get_shared_key(d2, policy_id) IN
              IF shared_key # NoKey
              THEN IF ~DecryptsWith(shared_key, e) THEN Out(d2, RetErr)
                   ELSE Out(save_notification(
                                save_completed_proposal(d2, e.id, policy_id),
                                e.id, NewCompletedProposal(e.id)),
                            RetSome(NewCompletedProposal(e.id)))
              ELSE Park(d2, e)
         ELSE Out(d1, RetNone)
    ELSE Out(d, RetNone)

SignersBranch(d, e) ==
    IF ~e.ok THEN Out(d, RetErr) ELSE Out(save_signer(d, e.id), RetNone)

SharedSignersBranch(d, e) ==
    IF ~HasFirstPublicKey(e) THEN Out(d, RetErr)
    ELSE LET public_key == extract_first_public_key(e) IN
         IF e.pubkey = MyPublicKey
         THEN IF ~HasFirstEventId(e) THEN Out(d, RetErr)
              ELSE Out(save_my_shared_signer(d, extract_first_event_id(e), e.id, public_key),
                       RetNone)
         ELSE IF ~e.ok THEN Out(d, RetErr)
              ELSE LET notification == NewSharedSigner(e.id, e.pubkey) IN
                   Out(save_notification(save_shared_signer(d, e.id, e.pubkey),
                                         e.id, notification),
                       RetSome(notification))

\* the deletion without the check of the author
DeleteTagAnyAuthor(d, author, event_id) ==
    IF get_event_by_id(d, event_id) THEN delete_generic_event_id(d, event_id) ELSE d

\* the body of the loop over the tags: one e-tag of a deletion by `author`
DeleteTag(d, author, event_id) ==
    IF get_event_by_id(d, event_id)
    THEN IF EventById(event_id).pubkey = author
         THEN delete_generic_event_id(d, event_id)
         ELSE d
    ELSE d

RECURSIVE DeleteTags(_, _, _)
DeleteTags(d, author, tags) ==
    IF tags = <<>> THEN d
    ELSE DeleteTags(DeleteTag(d, author, Head(tags)), author, Tail(tags))

EventDeletionBranch(d, e) == Out(DeleteTags(d, e.pubkey, e.etags), RetNone)

ContactListBranch(d, e) == Out(save_contacts(d, Range(e.ptags)), RetNone)

MetadataBranch(d, e) ==
    IF ~e.ok THEN Out(d, RetErr) ELSE Out(set_metadata(d, e.pubkey, e.id), RetNone)

\* msg.generate_response(&keys)?: Some(response), or None for a request that
\* has no response
generate_response(request) == IF request = "Connect" THEN "None" ELSE "Some"

\* reachable: send_event_to_with_custom_wait to the relay of the session
\* returns Ok
NostrConnectBranch(d, e, reachable) ==
    IF ~e.ok THEN Out(d, RetErr)
    ELSE LET request == RequestOf(e) IN
         IF request = "Disconnect"
         THEN Out(delete_nostr_connect_session(d, e.pubkey), RetNone)
         ELSE IF request = "GetPublicKey"
         THEN IF generate_response(request) = "None" THEN Out(d, RetErr)
              ELSE IF ~reachable THEN Out(d, RetErr)
              ELSE OutSent(d, RetNone)
         ELSE IF is_nostr_connect_session_pre_authorized(d, e.pubkey)
              THEN IF generate_response(request) = "None" THEN Out(d, RetErr)
                   ELSE IF ~reachable THEN Out(d, RetErr)
                   ELSE OutSent(save_nostr_connect_request(d, e.id, e.pubkey, TRUE),
                                RetNone)
              ELSE Out(save_nostr_connect_request(d, e.id, e.pubkey, FALSE), RetNone)

\* the NostrConnect branch entered for every author
SessionGuardAlways(d, e) == TRUE
\* self.db.nostr_connect_session_exists(event.pubkey)?
SessionGuard(d, e) == nostr_connect_session_exists(d, e.pubkey)

\* the Policy branch entered whether or not the policy is saved already
PolicyGuardAlways(d, e) == TRUE
\* !self.db.policy_exists(event.id)?
PolicyGuard(d, e) == ~policy_exists(d, e.id)

handle_event(d, e, fresh, reachable) ==
    IF event_was_deleted(d, e.id) THEN Out(d, RetNone)
    ELSE LET d0 == IF e.kind # KindNostrConnect THEN save_event(d, e) ELSE d IN
         IF e.kind = SHARED_KEY_KIND THEN SharedKeyBranch(d0, e)
         ELSE IF e.kind = POLICY_KIND /\ PolicyGuard(d0, e)
              THEN PolicyBranch(d0, e)
         ELSE IF e.kind = PROPOSAL_KIND /\ ~proposal_exists(d0, e.id)
              THEN ProposalBranch(d0, e)
         ELSE IF e.kind = APPROVED_PROPOSAL_KIND /\ ~approved_proposal_exists(d0, e.id)
              THEN ApprovedProposalBranch(d0, e)
         ELSE IF e.kind = COMPLETED_PROPOSAL_KIND /\ ~completed_proposal_exists(d0, e.id)
              THEN CompletedProposalBranch(d0, e, fresh)
         ELSE IF e.kind = SIGNERS_KIND THEN SignersBranch(d0, e)
         ELSE IF e.kind = SHARED_SIGNERS_KIND THEN SharedSignersBranch(d0, e)
         ELSE IF e.kind = KindEventDeletion THEN EventDeletionBranch(d0, e)
         ELSE IF e.kind = KindContactList THEN ContactListBranch(d0, e)
         ELSE IF e.kind = KindMetadata THEN MetadataBranch(d0, e)
         ELSE IF e.kind = KindNostrConnect /\ SessionGuard(d0, e)
              THEN NostrConnectBranch(d0, e, reachable)
         ELSE Out(d0, RetNone)

(***************************************************************************)
(* The relays of the client, their subscriptions, and the filters          *)
(***************************************************************************)
\* this.client.relays()
Relays == {"r1", "r2"}
\* relay.subscription().id(): the id of the one subscription a relay keeps
SubscriptionId(relay_url) == IF relay_url = "r1" THEN "s1" ELSE "s2"
\* the ids an EndOfStoredEvents may carry: those of the relays' subscriptions
\* and that of a one-off request (req_events_of)
SubscriptionIds == {"s1", "s2", "req"}

\* the filter for NostrConnect left without since
sync_filters_connect_unbounded(since) ==
    <<[filter |-> "author_filter", since |-> since],
      [filter |-> "pubkey_filter", since |-> since],
      [filter |-> "nostr_connect_filter", since |-> 0],
      [filter |-> "other_filters", since |-> since]>>
\* the four filters of a subscription, each with .since(since)
sync_filters(since) ==
    <<[filter |-> "author_filter", since |-> since],
      [filter |-> "pubkey_filter", since |-> since],
      [filter |-> "nostr_connect_filter", since |-> since],
      [filter |-> "other_filters", since |-> since]>>

\* the last_sync of the subscription loop: the stored watermark, or
\* Timestamp::from(0) when get_last_relay_sync returns Err (no row, or the
\* read failed)
LastSync(d, relay_url, readable) ==
    IF readable /\ last_relay_sync_exists(d, relay_url)
    THEN get_last_relay_sync(d, relay_url)
    ELSE 0

\* Ok or Err: what get_last_relay_sync returned to the subscription loop
LastSyncRead(d, relay_url, readable) ==
    IF readable /\ last_relay_sync_exists(d, relay_url) THEN "Ok" ELSE "Err"

NotSubscribed == [read |-> "-", filters |-> <<>>]

\* the watermark written whatever the subscription id
SubscriptionMatchesAny(relay_url, subscription_id) == TRUE
\* subscription.id() == subscription_id
SubscriptionMatches(relay_url, subscription_id) ==
    SubscriptionId(relay_url) = subscription_id

(***************************************************************************)
(* sync(): the threads that call it and the threads it spawns              *)
(***************************************************************************)
Callers == 1..NumCallers
Starts == 1..MaxStarts

\* the four abort handles of one spawned thread
Tasks == {"timechain_sync", "pending_event_handler", "metadata_sync", "rebroadcaster"}

\* the first operation of an iteration of each loop
FirstOp(t) ==
    IF t = "timechain_sync" THEN "electrum_endpoint"
    ELSE IF t = "pending_event_handler" THEN "get_pending_events"
    ELSE IF t = "metadata_sync" THEN "get_unsynced_metadata_pubkeys"
    ELSE "if_false"

\* the same statements with the store into the guard moved to the front
StopArmSyncingFirst ==
    <<"syncing", "timechain_sync", "pending_event_handler", "metadata_sync", "rebroadcaster">>
\* the statements of the Stop/Shutdown arm, in program order: abort() on a
\* handle, or the store of false into self.syncing
StopArm ==
    <<"timechain_sync", "pending_event_handler", "metadata_sync", "rebroadcaster", "syncing">>

NotStarted == [state |-> "none", aborted |-> {}, arm |-> 0]
\* the state of a thread whose tasks run and whose notification loop listens
Running == [state |-> "listening", aborted |-> {}, arm |-> 0]

\* the tasks of spawned thread s that are running: created and not aborted
LiveTasks(s) ==
    IF sup[s].state \in {"listening", "stop", "exited"} THEN Tasks \ sup[s].aborted ELSE {}
PendingHandlerLive == \E s \in Starts : "pending_event_handler" \in LiveTasks(s)
Listening == \E s \in Starts : sup[s].state = "listening"

(***************************************************************************)
(* The dispatcher at work: events from the relays, and the re-drive loop   *)
(***************************************************************************)
\* one call of handle_event and the send of its Ok value on sync_channel
Dispatch(src, e) ==
    LET r == handle_event(db, e, e.id \notin stale, up) IN
    /\ r.ret.tag = "Some" => sent[r.ret.n] < MaxSent
    /\ r.resp = 1 => outbox[e.id] < MaxSent
    /\ db' = r.db
    /\ ret' = r.ret
    /\ call' = [src |-> src, id |-> e.id]
    /\ sent' = IF r.ret.tag = "Some" THEN [sent EXCEPT ![r.ret.n] = @ + 1] ELSE sent
    /\ outbox' = IF r.resp = 1 THEN [outbox EXCEPT ![e.id] = @ + 1] ELSE outbox

\* event.is_expired(): the event carries an expiration tag that lies in the past
is_expired(e) == e.id \in expired

\* RelayPoolNotification::Event
Live(e) ==
    /\ Listening
    /\ e \in relay
    /\ IF is_expired(e)
       THEN /\ logged' = logged \cup {e.id}
            /\ UNCHANGED <<db, sent, call, ret, outbox>>
       ELSE /\ Dispatch("relay", e)
            /\ UNCHANGED logged
    /\ UNCHANGED <<relay, batch, stale, syncVars, clockVars, expired, flightVars, bg, up, polVars>>

\* the loop taken from the back of the list
NextIndexLast(events) == Len(events)
\* for event in events.into_iter(): the position handled next
NextIndex(events) == 1
Without(events, i) == SubSeq(events, 1, i - 1) \o SubSeq(events, i + 1, Len(events))
\* the loop left at the first error
NextEventsBreakOnErr(r, rest) == IF r.tag = "Err" THEN <<>> ELSE rest
\* the events the loop goes on with after handle_event returned r: the Ok
\* arm and the Err arm both fall through to the next turn
NextEvents(r, rest) == rest

\* handle_pending_events: the read of the queue that opens a tick
TickStart ==
    /\ PendingHandlerLive
    /\ batch = <<>>
    /\ batch' = get_pending_events(db)
    /\ UNCHANGED <<relay, db, sent, call, ret, stale, syncVars, netVars>>

\* handle_pending_events: one turn of the loop over the events read
TickStep ==
    /\ PendingHandlerLive
    /\ batch # <<>>
    /\ Dispatch("pending", EventById(batch[NextIndex(batch)]))
    /\ batch' = NextEvents(ret', Without(batch, NextIndex(batch)))
    /\ UNCHANGED <<relay, stale, syncVars, clockVars, expiryVars, flightVars, bg, up, polVars>>

\* time passes: a completed-proposal event becomes older than 600 s
Age(e) ==
    /\ e \in relay
    /\ e.kind = COMPLETED_PROPOSAL_KIND
    /\ e.id \notin stale
    /\ stale' = stale \cup {e.id}
    /\ UNCHANGED <<relay, db, sent, call, ret, batch, syncVars, netVars>>

\* time passes: the expiration of an event is reached
Expire(e) ==
    /\ e \in relay
    /\ e.id \in WithExpiration
    /\ e.id \notin expired
    /\ expired' = expired \cup {e.id}
    /\ UNCHANGED <<dispatchVars, syncVars, clockVars, logged, flightVars, sideVars>>

\* ---- policies (smartvaults-core) --------------------------------------

Networks == {"Bitcoin", "Testnet"}

\* keys: XOnlyPublicKey::unspendable, the keys of the signers, and a key whose
\* text happens to contain the letters "after"
Unspendable == 0
VanityKey == MaxKeys + 1
\* a key of a signer that is used as the internal key, and the key of a
\* signer that no descriptor holds
InternalKey == MaxKeys + 2
Stranger == MaxKeys + 3

\* miniscript fragments of the script of a tr() descriptor
Frag(frag, k, key, args) == [frag |-> frag, k |-> k, key |-> key, subs |-> args]
NoTree == Frag("-", 0, 0, <<>>)
Pk(key) == Frag("pk", 0, key, <<>>)
Pks(m) == [i \in 1..m |-> Pk(i)]
MultiA(k, m) == Frag("multi_a", k, 0, Pks(m))
Older == Frag("older", 2, 0, <<>>)
After == Frag("after", 2, 0, <<>>)
Timelocks == {Older, After}
ThreshFrag(k, args) == Frag("thresh", k, 0, args)
AndV(a, b) == Frag("and_v", 0, 0, <<a, b>>)
AndOr(a, b, c) == Frag("andor", 0, 0, <<a, b, c>>)
\* a tap tree of several leaves: {a,b}
TapTree(leaves) == Frag("leaves", 0, 0, leaves)

\* Descriptor<String>: tr(internal_key, tree), its keys of one network
Tr(internal_key, tree, network) ==
    [internal_key |-> internal_key, tree |-> tree, network |-> network]

Scripts ==
    {NoTree, Pk(1)}
    \cup UNION {{MultiA(k, m) : k \in 1..m} : m \in 2..MaxKeys}
    \cup UNION {UNION {{ThreshFrag(k, Pks(m) \o lock) : k \in 1..(m + Len(lock))} :
                    lock \in {<<>>, <<Older>>, <<After>>}} : m \in 1..MaxKeys}
    \cup {AndV(Pk(1), l) : l \in Timelocks}
    \cup {AndV(Pk(1), AndOr(Pk(2), l, Pk(3))) : l \in Timelocks}
    \cup {AndV(Pk(1), AndOr(Pk(2), l, Frag("multi_a", 1, 0, <<Pk(3)>>))) : l \in Timelocks}
    \cup {AndV(MultiA(2, 2), l) : l \in Timelocks}
    \cup {AndOr(Pk(1), l, Pk(2)) : l \in Timelocks}
    \cup {ThreshFrag(2, <<Pk(1), Older, After>>)}
    \cup {TapTree(<<MultiA(2, 2), AndV(Pk(3), l)>>) : l \in Timelocks}
    \cup {TapTree(<<AndV(Pk(1), l), MultiA(2, 2)>>) : l \in Timelocks}

Descriptors ==
    {Tr(i, t, n) : i \in {Unspendable, VanityKey, InternalKey}, t \in Scripts,
                   n \in Networks}

\* descriptor.to_string(): the text, as the words it is made of
RECURSIVE Concat(_)
Concat(ss) == IF Len(ss) = 0 THEN <<>> ELSE Head(ss) \o Concat(Tail(ss))

KeyStr(key) == IF key = VanityKey THEN <<"tpubD", "after", "x">> ELSE <<"tpubD">>

RECURSIVE ScriptStr(_)
ScriptStr(s) ==
    IF s = NoTree THEN <<>>
    ELSE <<s.frag>> \o (IF s.frag = "pk" THEN KeyStr(s.key) ELSE <<>>)
             \o Concat([i \in 1..Len(s.subs) |-> ScriptStr(s.subs[i])])

to_string(descriptor) ==
    <<"tr">> \o KeyStr(descriptor.internal_key) \o ScriptStr(descriptor.tree)

contains(text, word) == \E i \in 1..Len(text) : text[i] = word

\* Concrete<String>: the policies from_policy is given, none of which has a
\* key that can be the internal key
ConcreteThresh(k, m, lock, network) ==
    [op |-> "thresh", k |-> k, m |-> m, lock |-> lock, network |-> network]
ConcreteAnd(lock, network) ==
    [op |-> "and", k |-> 2, m |-> 1, lock |-> lock, network |-> network]
ConcretePolicies ==
    UNION {UNION {{ConcreteThresh(k, m, lock, n) : k \in 2..(m + Len(lock) - 1)} :
                    lock \in {<<>>, <<Older>>, <<After>>}, n \in Networks} :
                m \in 2..MaxKeys}
    \cup {ConcreteAnd(<<l>>, n) : l \in Timelocks, n \in Networks}

\* policy.compile_tr(Some(unspendable_pk))
compile_tr(concrete, unspendable_pk) ==
    IF concrete.op = "and"
    THEN Tr(unspendable_pk, AndV(Pk(1), concrete.lock[1]), concrete.network)
    ELSE IF Len(concrete.lock) = 0
    THEN Tr(unspendable_pk, MultiA(concrete.k, concrete.m), concrete.network)
    ELSE Tr(unspendable_pk, ThreshFrag(concrete.k, Pks(concrete.m) \o concrete.lock),
            concrete.network)

\* SatisfiableItem, with the id of the policy node that holds it
Item(type, threshold, items, id) ==
    [type |-> type, threshold |-> threshold, items |-> items, id |-> id]
Leaf(type, n) == Item(type, 0, <<>>, <<type, n>>)
Thresh(threshold, items) ==
    Item("Thresh", threshold, items,
         <<"Thresh", threshold, [i \in 1..Len(items) |-> items[i].id]>>)

\* the item of a fragment
RECURSIVE extract_policy(_)
extract_policy(s) ==
    IF s.frag = "pk" THEN Leaf("SchnorrSignature", s.key)
    ELSE IF s.frag = "multi_a"
    THEN Item("Multisig", s.k, [i \in 1..Len(s.subs) |-> Leaf("SchnorrSignature", s.subs[i].key)],
              <<"Multisig", s.k, Len(s.subs)>>)
    ELSE IF s.frag = "older" THEN Leaf("RelativeTimelock", s.k)
    ELSE IF s.frag = "after" THEN Leaf("AbsoluteTimelock", s.k)
    ELSE IF s.frag = "thresh"
    THEN Thresh(s.k, [i \in 1..Len(s.subs) |-> extract_policy(s.subs[i])])
    ELSE IF s.frag = "and_v"
    THEN Thresh(2, <<extract_policy(s.subs[1]), extract_policy(s.subs[2])>>)
    ELSE Thresh(1, <<Thresh(2, <<extract_policy(s.subs[1]), extract_policy(s.subs[2])>>),
                     extract_policy(s.subs[3])>>)

\* the item of a tr() descriptor: the key path, or one of key path and script
RootItem(descriptor) ==
    IF descriptor.tree = NoTree THEN Leaf("SchnorrSignature", descriptor.internal_key)
    ELSE IF descriptor.tree.frag = "leaves"
    THEN Thresh(1, <<Leaf("SchnorrSignature", descriptor.internal_key)>>
                   \o [i \in 1..Len(descriptor.tree.subs) |->
                            extract_policy(descriptor.tree.subs[i])])
    ELSE Thresh(1, <<Leaf("SchnorrSignature", descriptor.internal_key),
                     extract_policy(descriptor.tree)>>)

\* Wallet::new_no_persist(&descriptor.to_string(), None, network)
new_no_persist(descriptor, network) ==
    IF descriptor.network = network THEN "Ok" ELSE "Err"

NoItem == Leaf("-", 0)
NoPolicy == [descriptor |-> Tr(Unspendable, NoTree, "-")]
\* what a call returned: its variant, with the list of conditions, or the
\* path and the missing_to_select of a selector, or the map of the signers
Returned(tag, list, path, missing, map) ==
    [tag |-> tag, list |-> list, path |-> path, missing |-> missing, map |-> map]
Value(tag, list) == Returned(tag, list, <<>>, <<>>, <<>>)
Called(op, network, signers, value) ==
    [op |-> op, network |-> network, signers |-> signers, value |-> value]
NoResult == Called("-", "-", {}, Value("-", <<>>))

has_relative_timelock(p) == contains(to_string(p.descriptor), "older")
has_absolute_timelock(p) == contains(to_string(p.descriptor), "after")
has_timelock_absolute_only(p) == has_absolute_timelock(p)
has_timelock(p) == has_absolute_timelock(p) \/ has_relative_timelock(p)

satisfiable_item(p, network) ==
    IF new_no_persist(p.descriptor, network) = "Err" THEN [tag |-> "Err", item |-> NoItem]
    ELSE [tag |-> "Ok", item |-> RootItem(p.descriptor)]

SelectableCondition(path, thresh, sub_paths) ==
    [path |-> path, thresh |-> thresh, sub_paths |-> sub_paths]

RECURSIVE ConditionsOf(_, _)

\* the inner fn without the test of 243: an entry for every Thresh
ConditionsOfEveryThresh(item, prev_id) ==
    IF item.type = "Thresh"
    THEN <<SelectableCondition(prev_id, item.threshold,
                               [i \in 1..Len(item.items) |-> item.items[i].id])>>
         \o Concat([i \in 1..Len(item.items) |->
                        ConditionsOf(item.items[i], item.items[i].id)])
    ELSE <<>>

\* the conditions of an item alone, without those of its items
ConditionsOfItemOnly(item, prev_id) ==
    IF item.type = "Thresh" /\ item.threshold < Len(item.items)
    THEN <<SelectableCondition(prev_id, item.threshold,
                               [i \in 1..Len(item.items) |-> item.items[i].id])>>
    ELSE <<>>

\* the inner fn selectable_conditions: the conditions of an item and of the
\* items below it, in the order they are pushed
ConditionsOf(item, prev_id) ==
    IF item.type = "Thresh"
    THEN (IF item.threshold < Len(item.items)
          THEN <<SelectableCondition(prev_id, item.threshold,
                                     [i \in 1..Len(item.items) |-> item.items[i].id])>>
          ELSE <<>>)
         \o Concat([i \in 1..Len(item.items) |->
                        ConditionsOf(item.items[i], item.items[i].id)])
    ELSE <<>>

selectable_conditions(p, network) ==
    IF has_timelock(p)
    THEN LET item == satisfiable_item(p, network) IN
         IF item.tag = "Err" THEN Value("Err", <<>>)
         ELSE Value("Some", ConditionsOf(item.item, item.item.id))
    ELSE Value("None", <<>>)

RECURSIVE Fingerprints(_)

\* the fingerprints without those of the keys of a Multisig
FingerprintsOutsideMultisig(item) ==
    IF item.type = "SchnorrSignature" THEN {item.id[2]} \ {Unspendable}
    ELSE IF item.type = "Thresh"
    THEN UNION {Fingerprints(item.items[i]) : i \in 1..Len(item.items)}
    ELSE {}

\* the fingerprints that the JSON of an item holds: those of its keys
Fingerprints(item) ==
    IF item.type = "SchnorrSignature" THEN {item.id[2]} \ {Unspendable}
    ELSE IF item.type \in {"Thresh", "Multisig"}
    THEN UNION {Fingerprints(item.items[i]) : i \in 1..Len(item.items)}
    ELSE {}

\* fn check of satisfiable_item_by_path: the item that has the path as its
\* id, when it is a signature or a threshold below the root
RECURSIVE check(_, _, _)
check(item, prev_item, path) ==
    IF item.type = "SchnorrSignature"
    THEN IF item.id = path THEN prev_item ELSE NoItem
    ELSE IF item.type = "Thresh"
    THEN IF item.id = path THEN prev_item
         ELSE LET found == {i \in 1..Len(item.items) :
                                check(item.items[i], item.items[i], path) # NoItem} IN
              IF found = {} THEN NoItem
              ELSE LET x == item.items[CHOOSE i \in found : \A j \in found : i <= j] IN
                   check(x, x, path)
    ELSE NoItem

satisfiable_item_by_path(p, path, network) ==
    LET item == satisfiable_item(p, network) IN
    IF item.tag = "Err" THEN [tag |-> "Err", item |-> NoItem]
    ELSE [tag |-> "Ok", item |-> check(item.item, NoItem, path)]

\* PolicyPathSelector
Complete(path) == Returned("Complete", <<>>, path, <<>>, <<>>)
Partial(selected_path, missing_to_select) ==
    Returned("Partial", <<>>, selected_path, missing_to_select, <<>>)

\* sub_paths.remove(idx) for each idx
RemoveIdxs(sub_paths, idxs) ==
    IF Len(idxs) = 0 THEN sub_paths
    ELSE SubSeq(sub_paths, 1, idxs[1]) \o SubSeq(sub_paths, idxs[1] + 2, Len(sub_paths))

\* Complete returned without a look at the thresholds
CompleteWhatever(map, conds) == Complete([q \in DOMAIN map |-> map[q].sp])

\* the branch taken when every selectable condition has a match
EveryConditionMatched(map, conds) ==
    LET not_matching_thresh == {q \in DOMAIN map : map[q].thresh # Len(map[q].sp)} IN
    IF not_matching_thresh = {}
    THEN Complete([q \in DOMAIN map |-> map[q].sp])
    ELSE Partial([q \in DOMAIN map |-> map[q].sp],
                 [q \in not_matching_thresh |->
                    RemoveIdxs((conds[CHOOSE i \in 1..Len(conds) : conds[i].path = q]).sub_paths,
                               map[q].sp)])

\* the branch with the internal key path added to what was found
InternalKeyPathAdded(map, conds) ==
    LET internal_key_path == [q \in {conds[1].path} |-> <<0>>]
        found == [q \in DOMAIN map |-> map[q].sp]
        selected_path == [q \in DOMAIN map \cup {conds[1].path} |->
                            IF q = conds[1].path THEN <<0>> ELSE found[q]]
        rest == {conds[i].path : i \in 1..Len(conds)} \ DOMAIN selected_path IN
    IF internal_key_path = found THEN Complete(found)
    ELSE Partial(selected_path,
                 [q \in rest |->
                    (conds[CHOOSE i \in 1..Len(conds) : conds[i].path = q]).sub_paths])

\* the branch taken when some selectable condition has no match
SomeConditionUnmatched(map, conds) ==
    LET internal_key_path == [q \in {conds[1].path} |-> <<0>>]
        selected_path == [q \in DOMAIN map |-> map[q].sp]
        rest == {conds[i].path : i \in 1..Len(conds)} \ DOMAIN selected_path IN
    IF internal_key_path = selected_path THEN Complete(selected_path)
    ELSE Partial(selected_path,
                 [q \in rest |->
                    (conds[CHOOSE i \in 1..Len(conds) : conds[i].path = q]).sub_paths])

\* the map of the conditions that have a sub-path whose item names the
\* signer: per path, the threshold and the index inserted last
FoundMap(p, signer, network, conds) ==
    LET Matching(c) ==
            {i \in 1..Len(c.sub_paths) :
                LET item == satisfiable_item_by_path(p, c.sub_paths[i], network).item IN
                item # NoItem /\ signer \in Fingerprints(item)}
        matched == {i \in 1..Len(conds) : Matching(conds[i]) # {}}
        Last(c) == CHOOSE i \in Matching(c) : \A j \in Matching(c) : j <= i IN
    [q \in {conds[i].path : i \in matched} |->
        LET c == conds[CHOOSE i \in matched : conds[i].path = q] IN
        [thresh |-> c.thresh, sp |-> <<Last(c) - 1>>]]

get_policy_path_from_signer(p, signer, network) ==
    LET sc == selectable_conditions(p, network) IN
    IF sc.tag = "Err" THEN Value("Err", <<>>)
    ELSE IF sc.tag = "None" THEN Value("None", <<>>)
    ELSE LET conds == sc.list
             map == FoundMap(p, signer, network, conds) IN
         IF DOMAIN map = {} THEN Value("None", <<>>)
         ELSE IF Len(conds) = Cardinality(DOMAIN map)
         THEN EveryConditionMatched(map, conds)
         ELSE SomeConditionUnmatched(map, conds)

\* the keys whose text the text of the descriptor holds
RECURSIVE ScriptKeys(_)
ScriptKeys(s) ==
    IF s.frag = "pk" THEN {s.key}
    ELSE UNION {ScriptKeys(s.subs[i]) : i \in 1..Len(s.subs)}

search_used_signers(p, my_signers) ==
    {signer \in my_signers :
        signer \in ({p.descriptor.internal_key} \ {Unspendable}) \cup ScriptKeys(p.descriptor.tree)}

\* PolicyPath: Single(selector), Multiple(map) or None
get_policy_paths_from_signers(p, my_signers, network) ==
    LET used_signers == search_used_signers(p, my_signers)
        map == [signer \in used_signers |-> get_policy_path_from_signer(p, signer, network)]
        map_by_pps == {map[signer] : signer \in used_signers} IN
    IF \E signer \in used_signers : map[signer].tag = "Err" THEN Value("Err", <<>>)
    ELSE IF used_signers = {} THEN Value("None", <<>>)
    ELSE IF Cardinality(map_by_pps) = 1
    THEN LET pp == CHOOSE x \in map_by_pps : TRUE IN
         IF pp.tag # "None" THEN Returned("Single", <<pp>>, <<>>, <<>>, <<>>)
         ELSE Value("None", <<>>)
    ELSE Returned("Multiple", <<>>, <<>>, <<>>, map)

IsTimelock(item) == item.type \in {"RelativeTimelock", "AbsoluteTimelock"}

\* the Decaying test without the count of the timelocks
DecayingMatchKeysOnly(items, threshold) ==
    /\ threshold < Len(items)
    /\ threshold <= Cardinality({i \in 1..Len(items) : items[i].type = "SchnorrSignature"})

DecayingMatch(items, threshold) ==
    LET keys_count ==
            Cardinality({i \in 1..Len(items) : items[i].type = "SchnorrSignature"})
        absolute_timelock_count ==
            Cardinality({i \in 1..Len(items) : items[i].type = "AbsoluteTimelock"})
        relative_timelock_count ==
            Cardinality({i \in 1..Len(items) : items[i].type = "RelativeTimelock"}) IN
    /\ threshold < Len(items)
    /\ threshold <= keys_count
    /\ absolute_timelock_count + relative_timelock_count = Len(items) - keys_count

\* the template of an item: PolicyTemplateType or None
TemplateOf(item) ==
    IF /\ item.type = "Thresh"
       /\ item.threshold = 1
       /\ Len(item.items) = 2
       /\ item.items[1].type = "SchnorrSignature"
    THEN LET b == item.items[2] IN
         IF b.type \in {"SchnorrSignature", "Multisig"} THEN "Multisig"
         ELSE IF b.type = "Thresh"
         THEN IF /\ b.threshold = 2
                 /\ Len(b.items) = 2
                 /\ b.items[1].type = "SchnorrSignature"
                 /\ IsTimelock(b.items[2])
              THEN "Hold"
              ELSE IF /\ b.threshold = 2
                      /\ Len(b.items) = 2
                      /\ b.items[1].type = "Multisig"
                      /\ IsTimelock(b.items[2])
              THEN "Recovery"
              ELSE IF DecayingMatch(b.items, b.threshold) THEN "Decaying"
              ELSE "None"
         ELSE "None"
    ELSE "None"

\* the template, whatever the network
template_match_of_descriptor(p, network) == Value(TemplateOf(RootItem(p.descriptor)), <<>>)

template_match(p, network) ==
    LET item == satisfiable_item(p, network) IN
    IF item.tag = "Err" THEN Value("Err", <<>>)
    ELSE Value(TemplateOf(item.item), <<>>)

(***************************************************************************)
(* spend: the wallet of a policy, the transaction its builder makes, and   *)
(* the checks of Policy::spend                                             *)
(***************************************************************************)
\* the outpoints a wallet may hold, and the heights of its chain
OutPoints == 1..MaxUtxos
Heights == 1..MaxHeight

\* Option<T>: None, Some(x)
None == <<>>
Some(x) == <<x>>

\* LocalUtxo.confirmation_time
Confirmed(height) == [confirmed |-> TRUE, height |-> height]
Unconfirmed == [confirmed |-> FALSE, height |-> 0]

\* Wallet<D>: its unspent outputs and its latest checkpoint
Wallet(utxos, checkpoint) == [utxos |-> utxos, checkpoint |-> checkpoint]
NoWallet == Wallet([o \in {} |-> Unconfirmed], None)
list_unspent(w) == DOMAIN w.utxos
latest_checkpoint(w) == w.checkpoint

\* Amount
AmountMax == [max |-> TRUE, amount |-> 0]
Custom(amount) == [max |-> FALSE, amount |-> amount]

\* the arguments of a spend call
SpendArgs(amount, utxos, frozen_utxos, policy_path) ==
    [amount |-> amount, utxos |-> utxos, frozen_utxos |-> frozen_utxos,
     policy_path |-> policy_path]
\* a spend call: its arguments and the coins the builder selected
Spending(args, selection) == [args |-> args, selection |-> selection]
NoSpend == Spending(SpendArgs(AmountMax, None, None, None), {})

\* Condition: the csv and the timelock a spending path asks for (0: none),
\* or a PolicyError
Condition(csv, timelock) == [ok |-> TRUE, csv |-> csv, timelock |-> timelock]
PolicyError == [ok |-> FALSE, csv |-> 0, timelock |-> 0]
is_null(cond) == cond.ok /\ cond.csv = 0 /\ cond.timelock = 0
MaxOf(S) == CHOOSE x \in S : \A y \in S : y <= x

\* the conditions of the selected items, merged: the largest csv and the
\* largest timelock
MergeSelected(mapped_req, selected) ==
    IF \E index \in selected : ~mapped_req[index + 1].ok THEN PolicyError
    ELSE Condition(MaxOf({0} \cup {mapped_req[index + 1].csv : index \in selected}),
                   MaxOf({0} \cup {mapped_req[index + 1].timelock : index \in selected}))

\* Policy::get_condition of the wallet's external policy, for the path the
\* builder was given: the items of a threshold are those the path selects,
\* or all of them when the threshold needs them all
RECURSIVE get_condition(_, _)
get_condition(item, path) ==
    IF item.type = "Thresh"
    THEN LET default == IF Len(item.items) = item.threshold
                        THEN 0..(item.threshold - 1) ELSE {}
             selected == IF item.id \in DOMAIN path
                         THEN {path[item.id][i] : i \in 1..Len(path[item.id])}
                         ELSE default
             mapped_req == [i \in 1..Len(item.items) |-> get_condition(item.items[i], path)]
         IN IF \A i \in 1..Len(item.items) : is_null(mapped_req[i]) THEN Condition(0, 0)
            ELSE IF \E index \in selected : index >= Len(item.items) THEN PolicyError
            ELSE IF Cardinality(selected) < item.threshold THEN PolicyError
            ELSE MergeSelected(mapped_req, selected)
    ELSE IF item.type = "AbsoluteTimelock" THEN Condition(0, item.id[2])
    ELSE IF item.type = "RelativeTimelock" THEN Condition(item.id[2], 0)
    ELSE Condition(0, 0)

\* the unsigned transaction of a PSBT
Tx(lock_time, sequence, input) ==
    [lock_time |-> lock_time, sequence |-> sequence, input |-> input]
NoTx == Tx(0, 0, {})

\* what the coin selection of the builder may take: the manually selected
\* outputs and, unless manually_selected_only, outputs that are not
\* unspendable; all of them when the wallet is drained, else enough of them
\* for the amount (each output is worth 1)
Required(args) == IF args.utxos = None THEN {} ELSE args.utxos[1]
Optional(w, args) ==
    IF args.utxos # None THEN {}
    ELSE list_unspent(w) \ (IF args.frozen_utxos = None THEN {} ELSE args.frozen_utxos[1])
CoinSelections(w, args) ==
    LET all == Required(args) \cup Optional(w, args) IN
    IF args.amount.max THEN {S \in {all} : S # {}}
    ELSE {S \in SUBSET all : Required(args) \subseteq S /\ Cardinality(S) >= args.amount.amount}

\* builder.finish(): the path must select a spending path of the policy and
\* the selected coins must pay the amount; nLockTime is the larger of the
\* timelock asked for and current_height, nSequence the csv asked for (or
\* the RBF value, which locks nothing: 0 here)
finish(p, w, current_height, args, selection) ==
    LET requirements ==
            get_condition(RootItem(p.descriptor),
                          IF args.policy_path = None THEN [id \in {} |-> <<>>]
                          ELSE args.policy_path[1])
    IN IF ~requirements.ok THEN [ok |-> FALSE, tx |-> NoTx]
       ELSE IF selection \notin CoinSelections(w, args) THEN [ok |-> FALSE, tx |-> NoTx]
       ELSE [ok |-> TRUE,
             tx |-> Tx(MaxOf({current_height, requirements.timelock}),
                       requirements.csv, selection)]

\* Transaction::is_absolute_timelock_satisfied(height, time): the sequences
\* of the builder enable the lock time
\* the lock time taken as satisfied at every height
absolute_timelock_unchecked(tx, height) == TRUE

is_absolute_timelock_satisfied(tx, height) == tx.lock_time <= height

\* the check of 634-652 without the comparison of 642: a confirmed output
\* always passes
RelativeTimelockFailsUnconfirmedOnly(w, tx, current_height) ==
    /\ tx.sequence # 0
    /\ \E txin \in tx.input :
          /\ txin \in DOMAIN w.utxos
          /\ ~w.utxos[txin].confirmed

\* the relative timelock of an input of the transaction is not satisfied
RelativeTimelockFails(w, tx, current_height) ==
    /\ tx.sequence # 0
    /\ \E txin \in tx.input :
          /\ txin \in DOMAIN w.utxos
          /\ \/ ~w.utxos[txin].confirmed
             \/ /\ w.utxos[txin].confirmed
                /\ (IF current_height >= w.utxos[txin].height
                    THEN current_height - w.utxos[txin].height ELSE 0) < tx.sequence

\* the checks of spend on the PSBT that was built
TimelockChecksAbsoluteLast(p, w, current_height, tx) ==
    IF has_timelock(p) /\ RelativeTimelockFails(w, tx, current_height)
    THEN Value("RelativeTimelockNotSatisfied", <<>>)
    ELSE IF has_timelock(p) /\ ~is_absolute_timelock_satisfied(tx, current_height)
    THEN Value("AbsoluteTimelockNotSatisfied", <<>>)
    ELSE Value("Proposal", <<tx>>)

TimelockChecks(p, w, current_height, tx) ==
    IF has_timelock(p) /\ ~is_absolute_timelock_satisfied(tx, current_height)
    THEN Value("AbsoluteTimelockNotSatisfied", <<>>)
    ELSE IF has_timelock(p) /\ RelativeTimelockFails(w, tx, current_height)
    THEN Value("RelativeTimelockNotSatisfied", <<>>)
    ELSE Value("Proposal", <<tx>>)

\* the part of spend that builds the PSBT
BuildPsbt(p, w, current_height, args, selection) ==
    IF args.utxos # None /\ args.utxos[1] = {} THEN Value("NoUtxosSelected", <<>>)
    ELSE IF args.utxos # None /\ ~(args.utxos[1] \subseteq list_unspent(w))
    THEN Value("Bdk", <<>>)
    ELSE LET psbt == finish(p, w, current_height, args, selection) IN
         IF ~psbt.ok THEN Value("Bdk", <<>>)
         ELSE TimelockChecks(p, w, current_height, psbt.tx)

\* Policy::spend
spend(p, w, args, selection) ==
    IF list_unspent(w) = {}
    THEN Value("NoUtxosAvailable: wallet not contains any UTXO", <<>>)
    ELSE IF latest_checkpoint(w) = None THEN Value("CheckpointNotAvailable", <<>>)
    ELSE IF /\ args.frozen_utxos # None
            /\ list_unspent(w) \ args.frozen_utxos[1] = {}
    THEN Value("NoUtxosAvailable: frozen by other proposals", <<>>)
    ELSE BuildPsbt(p, w, latest_checkpoint(w)[1], args, selection)

(***************************************************************************)
(* CoreSigner (smartvaults-core/src/signer.rs)                             *)
(***************************************************************************)
\* ChildNumber
Hardened(index) == [hardened |-> TRUE, index |-> index]
Normal(index) == [hardened |-> FALSE, index |-> index]

\* Purpose, with the script type of BIP48
Purpose(bip, script) == [bip |-> bip, script |-> script]
BIP48_P2WSH == Purpose(48, 2)
BIP48_P2TR == Purpose(48, 3)
BIP86 == Purpose(86, 0)
PURPOSES == <<BIP48_P2WSH, BIP48_P2TR>>
AllPurposes == {BIP48_P2WSH, BIP48_P2TR, BIP86}
as_u32(purpose) == purpose.bip
SMARTVAULTS_ACCOUNT_INDEX == 784923

\* DescriptorPublicKey: the fingerprint of its master key and its full
\* derivation path, if it has one
DescriptorPublicKey(fingerprint, path) == [master_fingerprint |-> fingerprint, path |-> path]
master_fingerprint(descriptor) == descriptor.master_fingerprint
full_derivation_path(descriptor) == descriptor.path

\* the coin type of a network
Coin(network) == IF network = "Bitcoin" THEN 0 ELSE 1

\* purpose.to_account_extended_path(network, account)
to_account_extended_path(purpose, network, account) ==
    <<Hardened(as_u32(purpose)), Hardened(Coin(network)), Hardened(account)>>
    \o (IF purpose.bip = 48 THEN <<Hardened(purpose.script)>> ELSE <<>>)

SignerTypes == {"Seed", "Hardware", "AirGap", "Unknown"}
CoreSigner(fingerprint, descriptors, type, network) ==
    [fingerprint |-> fingerprint, descriptors |-> descriptors, type |-> type,
     network |-> network]
NoDescriptors == [purpose \in {} |-> DescriptorPublicKey(0, None)]
NoSigner == CoreSigner(0, NoDescriptors, "-", "-")

\* what a call on a signer gives: Ok or the error, and the signer after it
Outcome(tag, s) == [tag |-> tag, signer |-> s]

\* the check of the coin type left out
add_descriptor_any_network(s, purpose, descriptor) ==
    LET path == full_derivation_path(descriptor) IN
    IF s.fingerprint # master_fingerprint(descriptor)
    THEN Outcome("FingerprintNotMatch", s)
    ELSE IF path = None THEN Outcome("DerivationPathNotFound", s)
    ELSE IF Len(path[1]) < 1 THEN Outcome("PurposeNotFound", s)
    ELSE IF path[1][1] # Hardened(as_u32(purpose)) THEN Outcome("PurposeNotMatch", s)
    ELSE IF Len(path[1]) < 2 THEN Outcome("NetworkNotFound", s)
    ELSE Outcome("Ok", [s EXCEPT !.descriptors =
                            [q \in DOMAIN s.descriptors \cup {purpose} |->
                                IF q = purpose THEN descriptor ELSE s.descriptors[q]]])

\* CoreSigner::add_descriptor
add_descriptor(s, purpose, descriptor) ==
    LET path == full_derivation_path(descriptor) IN
    IF s.fingerprint # master_fingerprint(descriptor)
    THEN Outcome("FingerprintNotMatch", s)
    ELSE IF path = None THEN Outcome("DerivationPathNotFound", s)
    ELSE IF Len(path[1]) < 1 THEN Outcome("PurposeNotFound", s)
    ELSE IF path[1][1] # Hardened(as_u32(purpose)) THEN Outcome("PurposeNotMatch", s)
    ELSE IF Len(path[1]) < 2 THEN Outcome("NetworkNotFound", s)
    ELSE IF path[1][2] # Hardened(Coin(s.network)) THEN Outcome("NetworkNotMatch", s)
    ELSE Outcome("Ok", [s EXCEPT !.descriptors =
                            [q \in DOMAIN s.descriptors \cup {purpose} |->
                                IF q = purpose THEN descriptor ELSE s.descriptors[q]]])

\* CoreSigner::add_descriptors: the pairs in their order, up to the first
\* that is refused
RECURSIVE add_descriptors(_, _)
add_descriptors(s, descriptors) ==
    IF Len(descriptors) = 0 THEN Outcome("Ok", s)
    ELSE LET added == add_descriptor(s, Head(descriptors)[1], Head(descriptors)[2]) IN
         IF added.tag # "Ok" THEN added
         ELSE add_descriptors(added.signer, Tail(descriptors))

\* CoreSigner::new: no signer when a descriptor is refused
new(fingerprint, descriptors, type, network) ==
    LET added == add_descriptors(CoreSigner(fingerprint, NoDescriptors, type, network),
                                 descriptors)
    IN IF added.tag = "Ok" THEN added ELSE Outcome(added.tag, NoSigner)

airgap(fingerprint, descriptors, network) == new(fingerprint, descriptors, "AirGap", network)
unknown(fingerprint, descriptors, network) == new(fingerprint, descriptors, "Unknown", network)

\* CoreSigner::from_seed: the descriptors that the seed derives for the
\* purposes, BIP86 among them for the account of the old vaults
from_seed(seed, account, network) ==
    LET purposes == PURPOSES \o (IF account = Some(SMARTVAULTS_ACCOUNT_INDEX)
                                 THEN <<BIP86>> ELSE <<>>)
        derived(purpose) ==
            DescriptorPublicKey(seed,
                Some(to_account_extended_path(purpose, network,
                        IF account = None THEN 0 ELSE account[1])))
    IN new(seed, [i \in 1..Len(purposes) |-> <<purposes[i], derived(purposes[i])>>],
           "Seed", network)

\* ColdcardGenericJson: the fingerprint and the chain of the export, and the
\* purposes it has keys for
Coldcard(xfp, chain, purposes) == [xfp |-> xfp, chain |-> chain, purposes |-> purposes]

\* CoreSigner::from_coldcard
from_coldcard(coldcard, network) ==
    IF \E i \in 1..Len(PURPOSES) : PURPOSES[i] \notin coldcard.purposes
    THEN Outcome("Coldcard", NoSigner)
    ELSE airgap(coldcard.xfp,
                [i \in 1..Len(PURPOSES) |->
                    <<PURPOSES[i],
                      DescriptorPublicKey(coldcard.xfp,
                          Some(to_account_extended_path(PURPOSES[i], coldcard.chain, 0)))>>],
                network)

(***************************************************************************)
(* The vaults of the client (smartvaults-sdk/src/client/vault.rs).  The    *)
(* storage, the wallet manager and the relay client are modelled from      *)
(* their contracts.                                                        *)
(***************************************************************************)
VaultIds == 1..MaxVaults
OtherPublicKey == "other"

\* the client: the vaults of self.storage with the id of their event, the
\* events of self.client.database() with their author, the wallets that
\* self.manager has loaded, the resubscribe flag, the events that were
\* published, the vault ids that were made, and the last call with what it
\* returned
Sdk(vaults, database, loaded, resubscribe, published, made, last) ==
    [vaults |-> vaults, database |-> database, loaded |-> loaded,
     resubscribe |-> resubscribe, published |-> published, made |-> made, last |-> last]
VaultCall(op, vault_id, read, value) ==
    [op |-> op, vault_id |-> vault_id, read |-> read, ret |-> value]
NoVaultCall == VaultCall("-", 0, FALSE, "-")
NoSdk == Sdk([v \in {} |-> 0], [e \in {} |-> NoPk], {}, FALSE, <<>>, {}, NoVaultCall)

\* what the outside does to a call: the database reads the event, the signer
\* gives its key, the relays take the event, the manager (un)loads
Fates == [database : BOOLEAN, signer : BOOLEAN, send : BOOLEAN, manager : BOOLEAN]

Put(f, key, value) == [q \in DOMAIN f \cup {key} |-> IF q = key THEN value ELSE f[q]]
Drop(f, key) == [q \in DOMAIN f \ {key} |-> f[q]]

\* SmartVaults::internal_save_vault: the event of the vault is that of the
\* signer and has the id of the vault here
internal_save_vault(s, vault_id, fate) ==
    IF ~fate.signer THEN [s EXCEPT !.last = VaultCall("save_vault", vault_id, FALSE, "Err")]
    ELSE IF ~fate.send
    THEN [s EXCEPT !.last = VaultCall("save_vault", vault_id, FALSE, "Err")]
    ELSE IF ~fate.manager
    THEN [s EXCEPT !.published = Append(@, [kind |-> "Vault", id |-> vault_id]),
                   !.database = Put(@, vault_id, MyPublicKey),
                   !.last = VaultCall("save_vault", vault_id, FALSE, "Err")]
    ELSE [s EXCEPT !.published = Append(@, [kind |-> "Vault", id |-> vault_id]),
                   !.database = Put(@, vault_id, MyPublicKey),
                   !.loaded = @ \cup {vault_id},
                   !.vaults = Put(@, vault_id, vault_id),
                   !.resubscribe = TRUE,
                   !.last = VaultCall("save_vault", vault_id, FALSE, "Ok")]

\* the deletion without the test of the author
delete_vault_by_id_of_anyone(s, vault_id, fate) ==
    IF vault_id \notin DOMAIN s.vaults
    THEN [s EXCEPT !.last = VaultCall("delete_vault_by_id", vault_id, FALSE, "Err")]
    ELSE LET event_id == s.vaults[vault_id] IN
    IF ~fate.database \/ event_id \notin DOMAIN s.database \/ ~fate.signer
    THEN [s EXCEPT !.last = VaultCall("delete_vault_by_id", vault_id, FALSE, "Err")]
    ELSE IF ~fate.send
    THEN [s EXCEPT !.last = VaultCall("delete_vault_by_id", vault_id, TRUE, "Err")]
    ELSE IF ~fate.manager
    THEN [s EXCEPT !.published = Append(@, [kind |-> KindEventDeletion, id |-> event_id]),
                   !.vaults = Drop(@, vault_id),
                   !.last = VaultCall("delete_vault_by_id", vault_id, TRUE, "Err")]
    ELSE [s EXCEPT !.published = Append(@, [kind |-> KindEventDeletion, id |-> event_id]),
                   !.vaults = Drop(@, vault_id),
                   !.loaded = @ \ {vault_id},
                   !.resubscribe = TRUE,
                   !.last = VaultCall("delete_vault_by_id", vault_id, TRUE, "Ok")]

\* SmartVaults::delete_vault_by_id
delete_vault_by_id(s, vault_id, fate) ==
    IF vault_id \notin DOMAIN s.vaults
    THEN [s EXCEPT !.last = VaultCall("delete_vault_by_id", vault_id, FALSE, "Err")]
    ELSE LET event_id == s.vaults[vault_id] IN
    IF ~fate.database \/ event_id \notin DOMAIN s.database \/ ~fate.signer
    THEN [s EXCEPT !.last = VaultCall("delete_vault_by_id", vault_id, FALSE, "Err")]
    ELSE IF s.database[event_id] # MyPublicKey
    THEN [s EXCEPT !.last = VaultCall("delete_vault_by_id", vault_id, TRUE,
                                      "TryingToDeleteNotOwnedEvent")]
    ELSE IF ~fate.send
    THEN [s EXCEPT !.last = VaultCall("delete_vault_by_id", vault_id, TRUE, "Err")]
    ELSE IF ~fate.manager
    THEN [s EXCEPT !.published = Append(@, [kind |-> KindEventDeletion, id |-> event_id]),
                   !.vaults = Drop(@, vault_id),
                   !.last = VaultCall("delete_vault_by_id", vault_id, TRUE, "Err")]
    ELSE [s EXCEPT !.published = Append(@, [kind |-> KindEventDeletion, id |-> event_id]),
                   !.vaults = Drop(@, vault_id),
                   !.loaded = @ \ {vault_id},
                   !.resubscribe = TRUE,
                   !.last = VaultCall("delete_vault_by_id", vault_id, TRUE, "Ok")]

(***************************************************************************)
(* Proposals in their protobuf form (smartvaults-protocol v2,              *)
(* proposal/proto.rs).  Texts are modelled by what their parsers read: an  *)
(* address by its network prefix and payload, a descriptor, PSBT or        *)
(* transaction by whether it parses.                                       *)
(***************************************************************************)
\* network.magic().to_bytes() and NetworkMagic::from_slice
magic(network) == IF network = "Bitcoin" THEN "f9beb4d9" ELSE "0b110907"
UnknownMagic == "00000000"
from_slice(bytes) ==
    IF \E n \in Networks : magic(n) = bytes
    THEN Some(CHOOSE n \in Networks : magic(n) = bytes)
    ELSE None

\* Address and its text: the human-readable part names the network
Address(network, payload) == [network |-> network, payload |-> payload]
hrp(network) == IF network = "Bitcoin" THEN "bc" ELSE "tb"
address_to_string(address) == <<hrp(address.network), address.payload>>
\* Address::from_str: None stands for Err
address_from_str(text) ==
    IF Len(text) = 2 /\ \E n \in Networks : hrp(n) = text[1]
    THEN Some(Address(CHOOSE n \in Networks : hrp(n) = text[1], text[2]))
    ELSE None
\* Address<NetworkUnchecked>::require_network
require_network(address, network) ==
    IF address.network = network THEN Some(address) ELSE None

Recipient(address, amount) == [address |-> address, amount |-> amount]
ProtoRecipient(address, amount) == [address |-> address, amount |-> amount]
\* impl From<&Recipient> for ProtoRecipient
FromRecipient(recipient) ==
    ProtoRecipient(address_to_string(recipient.address), recipient.amount)

\* the texts of a descriptor, a PSBT or a transaction: parsed or refused
Parses(text) == text = "ok"

\* the recipients that parse and belong to the network, the others left out
filter_map_recipients(addresses, network) ==
    LET Kept(r) ==
            /\ address_from_str(r.address) # None
            /\ require_network(address_from_str(r.address)[1], network) # None
        kept == SelectSeq(addresses, Kept) IN
    [i \in 1..Len(kept) |->
        Recipient(address_from_str(kept[i].address)[1], kept[i].amount)]

\* ProtoPendingProposalEnum and PendingProposal, by variant
PendingSpending(descriptor, addresses, psbt) ==
    [variant |-> "Spending", descriptor |-> descriptor, addresses |-> addresses,
     recipient |-> None, period |-> None, psbt |-> psbt]
PendingProofOfReserve(descriptor, psbt) ==
    [variant |-> "ProofOfReserve", descriptor |-> descriptor, addresses |-> <<>>,
     recipient |-> None, period |-> None, psbt |-> psbt]
PendingKeyAgentPayment(descriptor, recipient, period, psbt) ==
    [variant |-> "KeyAgentPayment", descriptor |-> descriptor, addresses |-> <<>>,
     recipient |-> recipient, period |-> period, psbt |-> psbt]
\* ProtoProposal: the pending proposal it carries, if any, and the network
ProtoProposal(proposal, network) == [proposal |-> proposal, network |-> network]
Decoded(tag, proposal, network) ==
    [tag |-> tag, proposal |-> proposal, network |-> network]
DecodeErr(tag) == Decoded(tag, None, "-")

\* impl From<&PendingProposal> for ProtoPendingProposal, under
\* impl From<&Proposal> for ProtoProposal
FromProposal(pending, network) ==
    ProtoProposal(
        Some([pending EXCEPT
                !.addresses = [i \in 1..Len(pending.addresses) |->
                                    FromRecipient(pending.addresses[i])],
                !.recipient = IF pending.recipient = None THEN None
                              ELSE Some(FromRecipient(pending.recipient[1]))]),
        magic(network))

\* the Spending arm of TryFrom<ProtoProposal> for Proposal
TryFromSpending(inner, network) ==
    IF ~Parses(inner.descriptor) THEN DecodeErr("Miniscript")
    ELSE IF ~Parses(inner.psbt) THEN DecodeErr("Psbt")
    ELSE Decoded("Ok",
                 Some([inner EXCEPT
                         !.addresses = filter_map_recipients(inner.addresses, network)]),
                 network)

\* the KeyAgentPayment arm
TryFromKeyAgentPayment(inner, network) ==
    IF inner.recipient = None THEN DecodeErr("NotFound: recipient")
    ELSE IF inner.period = None THEN DecodeErr("NotFound: period")
    ELSE IF ~Parses(inner.descriptor) THEN DecodeErr("Miniscript")
    ELSE LET parsed == address_from_str(inner.recipient[1].address) IN
         IF parsed = None THEN DecodeErr("Address")
         ELSE IF require_network(parsed[1], network) = None THEN DecodeErr("Address")
         ELSE IF ~Parses(inner.psbt) THEN DecodeErr("Psbt")
         ELSE Decoded("Ok",
                      Some([inner EXCEPT
                              !.recipient = Some(Recipient(parsed[1],
                                                           inner.recipient[1].amount))]),
                      network)

\* the ProofOfReserve arm
TryFromProofOfReserve(inner, network) ==
    IF ~Parses(inner.descriptor) THEN DecodeErr("Miniscript")
    ELSE IF ~Parses(inner.psbt) THEN DecodeErr("Psbt")
    ELSE Decoded("Ok", Some(inner), network)

\* impl TryFrom<ProtoProposal> for Proposal, for a pending proposal
TryFromProtoProposal(value) ==
    LET network == from_slice(value.network) IN
    IF network = None THEN DecodeErr("NetworkMagic")
    ELSE IF value.proposal = None THEN DecodeErr("NotFound: pending proposal")
    ELSE LET inner == value.proposal[1] IN
         IF inner.variant = "Spending" THEN TryFromSpending(inner, network[1])
         ELSE IF inner.variant = "ProofOfReserve"
         THEN TryFromProofOfReserve(inner, network[1])
         ELSE TryFromKeyAgentPayment(inner, network[1])

\* what the last conversion was given and what it made of it
Converted(op, message, value) == [op |-> op, message |-> message, value |-> value]
NoProto == Converted("-", ProtoProposal(None, UnknownMagic), DecodeErr("-"))

InitStore ==
    /\ db = EmptyDb
    /\ sent = [n \in Notifications |-> 0]
    /\ call = [src |-> "none", id |-> 0]
    /\ ret = RetNone
    /\ batch = <<>>
    /\ stale = {}
    /\ now = 1
    /\ subs = [r \in Relays |-> NotSubscribed]
    /\ msg = [relay_url |-> "-", subscription_id |-> "-"]
    /\ expired = {}
    /\ logged = {}
    /\ loop = [s \in Starts |-> 0]
    /\ pend = 0
    /\ delivered = [s \in Starts |-> {}]
    /\ returned = [s \in Starts |-> {}]
    /\ bg = [t \in Tasks |-> [at |-> FirstOp(t), last |-> "-", errors |-> 0, left |-> 0]]
    /\ up = TRUE
    /\ outbox = [e \in ConnectEvents |-> 0]
    /\ policy = NoPolicy
    /\ result = NoResult
    /\ wallet = NoWallet
    /\ spending = NoSpend
    /\ core_signer = NoSigner
    /\ sdk = NoSdk
    /\ proto = NoProto

\* the dispatcher is observed while one start of sync() is running
InitRunning ==
    /\ InitStore
    /\ syncing = TRUE
    /\ pc = [c \in Callers |-> "idle"]
    /\ sup = [s \in Starts |-> IF s = 1 THEN Running ELSE NotStarted]

Init == relay \in Scenarios /\ InitRunning

Next ==
    \/ \E e \in AllEvents : Live(e)
    \/ TickStart
    \/ TickStep
    \/ \E e \in AllEvents : Age(e)

Spec == Init /\ [][Next]_vars

\* the re-drive loop wakes every 30 s for as long as its task lives
FairInit == relay \in FairScenarios /\ InitRunning
FairSpec == FairInit /\ [][Next]_vars /\ WF_vars(TickStart) /\ WF_vars(TickStep)

(***************************************************************************)
(* sync() step by step                                                     *)
(***************************************************************************)
\* self.syncing.load(SeqCst)
SyncLoad(c) ==
    /\ pc[c] = "idle"
    /\ Cardinality({s \in Starts : sup[s].state # "none"})
         + Cardinality({x \in Callers : pc[x] # "idle"}) < MaxStarts
    /\ pc' = IF syncing THEN pc ELSE [pc EXCEPT ![c] = "fetch_update"]
    /\ UNCHANGED <<syncing, sup, dispatchVars, netVars>>

\* self.syncing.fetch_update(.., |_| Some(true))
SyncFetchUpdate(c) ==
    /\ pc[c] = "fetch_update"
    /\ syncing' = TRUE
    /\ pc' = [pc EXCEPT ![c] = "spawn"]
    /\ UNCHANGED <<sup, dispatchVars, netVars>>

\* thread::spawn(async move { .. })
SyncSpawn(c) ==
    /\ pc[c] = "spawn"
    /\ \E s \in Starts :
        /\ sup[s].state = "none"
        /\ \A t \in Starts : t < s => sup[t].state # "none"
        /\ sup' = [sup EXCEPT ![s].state = "spawned"]
    /\ pc' = [pc EXCEPT ![c] = "idle"]
    /\ UNCHANGED <<syncing, dispatchVars, netVars>>

\* the spawned thread creates its four tasks, subscribes every relay with
\* the filters since its last sync, and enters handle_notifications
SupStart(s) ==
    /\ sup[s].state = "spawned"
    /\ sup' = [sup EXCEPT ![s].state = "listening"]
    /\ \E readable \in SUBSET Relays :
        subs' = [r \in Relays |->
                    [read |-> LastSyncRead(db, r, r \in readable),
                     filters |-> sync_filters(LastSync(db, r, r \in readable))]]
    /\ UNCHANGED <<syncing, pc, dispatchVars, now, msg, expiryVars, flightVars, sideVars>>

\* RelayPoolNotification::Stop | Shutdown reaches the loop of thread s
RecvStop(s) ==
    /\ sup[s].state = "listening"
    /\ sup' = [sup EXCEPT ![s].state = "stop", ![s].arm = 1]
    /\ UNCHANGED <<syncing, pc, dispatchVars, netVars>>

\* one statement of the Stop/Shutdown arm; the loop ends after the last
StopArmStep(s) ==
    /\ sup[s].state = "stop"
    /\ LET stmt == StopArm[sup[s].arm]
           last == sup[s].arm = Len(StopArm) IN
       /\ syncing' = IF stmt = "syncing" THEN FALSE ELSE syncing
       /\ sup' = [sup EXCEPT
                    ![s].aborted = IF stmt = "syncing" THEN @ ELSE @ \cup {stmt},
                    ![s].arm = IF last THEN 0 ELSE @ + 1,
                    ![s].state = IF last THEN "exited" ELSE @]
    /\ UNCHANGED <<pc, dispatchVars, netVars>>

SyncInit ==
    /\ relay \in Scenarios
    /\ InitStore
    /\ syncing = FALSE
    /\ pc = [c \in Callers |-> "idle"]
    /\ sup = [s \in Starts |-> NotStarted]

SyncNext ==
    \/ \E c \in Callers : SyncLoad(c)
    \/ \E c \in Callers : SyncFetchUpdate(c)
    \/ \E c \in Callers : SyncSpawn(c)
    \/ \E s \in Starts : SupStart(s)
    \/ \E s \in Starts : RecvStop(s)
    \/ \E s \in Starts : StopArmStep(s)

SyncSpec == SyncInit /\ [][SyncNext]_vars

(***************************************************************************)
(* The watermark: EndOfStoredEvents, the clock, and restarts               *)
(***************************************************************************)
\* the loop taking its next notification whatever it has in flight
LoopFreeAlways(s) == TRUE
\* handle_notifications awaits the closure, and the closure awaits
\* handle_event, before the next notification is taken
LoopFree(s) == loop[s] = 0

\* time passes
Tick ==
    /\ now < MaxTime
    /\ now' = now + 1
    /\ UNCHANGED <<dispatchVars, syncVars, subs, msg, expiryVars, flightVars, sideVars>>

\* RelayPoolNotification::Message(relay_url, EndOfStoredEvents(subscription_id))
\* reaches the loop of thread s
Eose(s, relay_url, subscription_id) ==
    /\ sup[s].state = "listening"
    /\ LoopFree(s)
    /\ msg' = [relay_url |-> relay_url, subscription_id |-> subscription_id]
    /\ db' = IF SubscriptionMatches(relay_url, subscription_id)
             THEN save_last_relay_sync(db, relay_url, now)
             ELSE db
    /\ UNCHANGED <<relay, sent, call, ret, batch, stale, syncVars, now, subs,
                   expiryVars, flightVars, sideVars>>

\* one thread starts, stops and restarts sync(), and the relays answer
EoseNext ==
    \/ SyncLoad(1)
    \/ SyncFetchUpdate(1)
    \/ SyncSpawn(1)
    \/ \E s \in Starts : SupStart(s)
    \/ \E s \in Starts : RecvStop(s)
    \/ \E s \in Starts : StopArmStep(s)
    \/ Tick
    \/ \E s \in Starts, r \in Relays, i \in SubscriptionIds : Eose(s, r, i)

EoseInit == SyncInit /\ relay = ScenarioVault
EoseSpec == EoseInit /\ [][EoseNext]_vars

(***************************************************************************)
(* The four background loops: the control flow of one iteration, with the  *)
(* result of each operation (r: "Ok" or "Err") and, for a read, the number *)
(* of items it returned (n) chosen freely.  b is the loop's record.        *)
(***************************************************************************)
Logged(b, at, r) ==
    [at |-> at, last |-> r, errors |-> IF r = "Err" THEN b.errors + 1 ELSE b.errors,
     left |-> 0]

\* the error of db.sync_with_timechain passed on with ? instead of logged
sync_with_timechain_propagating(b, r, n) ==
    IF b.at = "electrum_endpoint"
    THEN Logged(b, IF r = "Ok" THEN "sync_with_timechain" ELSE "sleep", r)
    ELSE IF b.at = "sync_with_timechain"
    THEN Logged(b, IF r = "Ok" THEN "sleep" ELSE "ended", r)
    ELSE Logged(b, "electrum_endpoint", "-")

sync_with_timechain(b, r, n) ==
    IF b.at = "electrum_endpoint"
    THEN Logged(b, IF r = "Ok" THEN "sync_with_timechain" ELSE "sleep", r)
    ELSE IF b.at = "sync_with_timechain"
    THEN Logged(b, "sleep", r)
    ELSE Logged(b, "electrum_endpoint", "-")

handle_pending_events(b, r, n) ==
    IF b.at = "get_pending_events"
    THEN [Logged(b, IF r = "Ok" /\ n > 0 THEN "handle_event" ELSE "sleep", r)
            EXCEPT !.left = IF r = "Ok" THEN n ELSE 0]
    ELSE IF b.at = "handle_event"
    THEN [Logged(b, IF b.left > 1 THEN "handle_event" ELSE "sleep", r)
            EXCEPT !.left = b.left - 1]
    ELSE Logged(b, "get_pending_events", "-")

sync_metadata(b, r, n) ==
    IF b.at = "get_unsynced_metadata_pubkeys"
    THEN Logged(b, IF r = "Ok" /\ n > 0 THEN "req_events_of" ELSE "sleep", r)
    ELSE IF b.at = "req_events_of"
    THEN Logged(b, "sleep", "-")
    ELSE Logged(b, "get_unsynced_metadata_pubkeys", "-")

\* if false { rebroadcast_all_events }: the operation is never reached
rebroadcaster(b, r, n) ==
    IF b.at = "if_false" THEN Logged(b, "sleep", "-") ELSE Logged(b, "if_false", "-")

\* the operations that return a Result
Fallible ==
    {"electrum_endpoint", "sync_with_timechain", "get_pending_events", "handle_event",
     "get_unsynced_metadata_pubkeys"}
\* the operations that return a list
Reads == {"get_pending_events", "get_unsynced_metadata_pubkeys"}

\* one operation, or the sleep, of background loop t
BgStep(t) ==
    /\ \E s \in Starts : t \in LiveTasks(s)
    /\ bg[t].at # "ended"
    /\ \E r \in (IF bg[t].at \in Fallible THEN {"Ok", "Err"} ELSE {"-"}) :
       \E n \in (IF bg[t].at \in Reads /\ r = "Ok" THEN 0..MaxBatch ELSE {0}) :
        /\ r = "Err" => bg[t].errors < MaxErrors
        /\ bg' = [bg EXCEPT ![t] =
                    IF t = "timechain_sync" THEN sync_with_timechain(bg[t], r, n)
                    ELSE IF t = "pending_event_handler" THEN handle_pending_events(bg[t], r, n)
                    ELSE IF t = "metadata_sync" THEN sync_metadata(bg[t], r, n)
                    ELSE rebroadcaster(bg[t], r, n)]
    /\ UNCHANGED <<dispatchVars, syncVars, clockVars, expiryVars, flightVars, up, outbox, polVars>>

TaskInit == relay = {} /\ InitRunning
TaskNext == \E t \in Tasks : BgStep(t)
\* every loop is a task of its own that the runtime keeps running
TaskSpec == TaskInit /\ [][TaskNext]_vars /\ \A t \in Tasks : WF_vars(BgStep(t))

(***************************************************************************)
(* The notification loop and the re-drive loop, call and return apart      *)
(***************************************************************************)
\* the loop of thread s takes an event from its stream: an expired one is
\* logged, any other goes into handle_event
LoopTake(s, e) ==
    /\ sup[s].state = "listening"
    /\ LoopFree(s)
    /\ e \in relay
    /\ delivered' = [delivered EXCEPT ![s] = @ \cup {e.id}]
    /\ IF is_expired(e)
       THEN logged' = logged \cup {e.id} /\ UNCHANGED loop
       ELSE loop' = [loop EXCEPT ![s] = e.id] /\ UNCHANGED logged
    /\ UNCHANGED <<dispatchVars, syncVars, clockVars, expired, pend, returned, sideVars>>

\* handle_event returns to the loop of thread s, which sends its Ok value
LoopReturn(s) ==
    /\ loop[s] # 0
    /\ Dispatch("relay", EventById(loop[s]))
    /\ loop' = [loop EXCEPT ![s] = 0]
    /\ returned' = [returned EXCEPT ![s] = @ \cup {loop[s]}]
    /\ UNCHANGED <<relay, batch, stale, syncVars, clockVars, expiryVars, pend, delivered,
                   bg, up, polVars>>

\* the re-drive loop enters handle_event with the next event of its tick
PendBegin ==
    /\ PendingHandlerLive
    /\ batch # <<>>
    /\ pend = 0
    /\ pend' = batch[NextIndex(batch)]
    /\ UNCHANGED <<dispatchVars, syncVars, clockVars, expiryVars, loop, delivered, returned,
                   sideVars>>

\* handle_event returns to the re-drive loop
PendReturn ==
    /\ pend # 0
    /\ Dispatch("pending", EventById(pend))
    /\ batch' = NextEvents(ret', Without(batch, NextIndex(batch)))
    /\ pend' = 0
    /\ UNCHANGED <<relay, stale, syncVars, clockVars, expiryVars, loop, delivered, returned,
                   bg, up, polVars>>

StreamInit == relay = ScenarioExpiry /\ InitRunning

StreamNext ==
    \/ \E s \in Starts, e \in AllEvents : LoopTake(s, e)
    \/ \E s \in Starts : LoopReturn(s)
    \/ TickStart
    \/ PendBegin
    \/ PendReturn
    \/ \E s \in Starts, r \in Relays : Eose(s, r, SubscriptionId(r))
    \/ \E e \in AllEvents : Expire(e)

StreamSpec == StreamInit /\ [][StreamNext]_vars

\* the user opens a session for an app (new_nostr_connect_session)
NewSession(app_public_key) ==
    /\ ~nostr_connect_session_exists(db, app_public_key)
    /\ db' = save_nostr_connect_uri(db, app_public_key)
    /\ UNCHANGED <<relay, sent, call, ret, batch, stale, syncVars, netVars>>

\* the user pre-authorizes a session for some time
\* (auto_approve_nostr_connect_requests)
AutoApprove(app_public_key) ==
    /\ nostr_connect_session_exists(db, app_public_key)
    /\ ~is_nostr_connect_session_pre_authorized(db, app_public_key)
    /\ db' = set_nostr_connect_auto_approve(db, app_public_key)
    /\ UNCHANGED <<relay, sent, call, ret, batch, stale, syncVars, netVars>>

\* the pre-authorization ends: its time is over, or the user revokes it
\* (revoke_nostr_connect_auto_approve)
PreAuthEnds(app_public_key) ==
    /\ is_nostr_connect_session_pre_authorized(db, app_public_key)
    /\ db' = revoke_nostr_connect_auto_approve(db, app_public_key)
    /\ UNCHANGED <<relay, sent, call, ret, batch, stale, syncVars, netVars>>

\* the relay of the sessions becomes unreachable, or reachable again
Net ==
    /\ up' = ~up
    /\ UNCHANGED <<dispatchVars, syncVars, clockVars, expiryVars, flightVars, bg, outbox, polVars>>

Apps == {"app"}

ConnectInit == relay = ScenarioConnect /\ InitRunning
ConnectNext ==
    \/ \E e \in AllEvents : Live(e)
    \/ \E a \in Apps : NewSession(a)
    \/ \E a \in Apps : AutoApprove(a)
    \/ \E a \in Apps : PreAuthEnds(a)
    \/ Net

ConnectSpec == ConnectInit /\ [][ConnectNext]_vars

\* ---- building a policy and asking for its conditions ------------------

\* Policy::new: the descriptor is a tr() descriptor and a wallet can be made
\* of it for the network
PolicyNew(descriptor, network, op) ==
    IF new_no_persist(descriptor, network) = "Ok"
    THEN /\ policy' = [descriptor |-> descriptor]
         /\ result' = Called(op, network, {}, Value("Ok", <<>>))
    ELSE /\ policy' = policy
         /\ result' = Called(op, network, {}, Value("Err", <<>>))

FromDescriptor(descriptor, network) ==
    /\ policy = NoPolicy
    /\ PolicyNew(descriptor, network, "from_descriptor")
    /\ UNCHANGED <<dispatchVars, syncVars, clockVars, expiryVars, flightVars, bg, up, outbox,
                   wallet, spending, core_signer, sdk, proto>>

FromPolicy(concrete, network) ==
    /\ policy = NoPolicy
    /\ PolicyNew(compile_tr(concrete, Unspendable), network, "from_policy")
    /\ UNCHANGED <<dispatchVars, syncVars, clockVars, expiryVars, flightVars, bg, up, outbox,
                   wallet, spending, core_signer, sdk, proto>>

\* the calls below take &self and leave the policy as it is: each behaviour
\* makes one of them on the policy it has built
Built == policy # NoPolicy /\ result.op \in {"from_descriptor", "from_policy"}

SelectableConditions(network) ==
    /\ Built
    /\ result' = Called("selectable_conditions", network, {},
                         selectable_conditions(policy, network))
    /\ UNCHANGED <<dispatchVars, syncVars, clockVars, expiryVars, flightVars, bg, up, outbox,
                   policy, wallet, spending, core_signer, sdk, proto>>

Signers == (1..MaxKeys) \cup {VanityKey, InternalKey, Stranger}
\* my_signers: no signer, one, or two
MySigners == {{}} \cup {{a, b} : a, b \in Signers}

GetPolicyPathFromSigner(signer, network) ==
    /\ Built
    /\ result' = Called("get_policy_path_from_signer", network, {signer},
                        get_policy_path_from_signer(policy, signer, network))
    /\ UNCHANGED <<dispatchVars, syncVars, clockVars, expiryVars, flightVars, bg, up, outbox,
                   policy, wallet, spending, core_signer, sdk, proto>>

GetPolicyPathsFromSigners(my_signers, network) ==
    /\ Built
    /\ result' = Called("get_policy_paths_from_signers", network, my_signers,
                        get_policy_paths_from_signers(policy, my_signers, network))
    /\ UNCHANGED <<dispatchVars, syncVars, clockVars, expiryVars, flightVars, bg, up, outbox,
                   policy, wallet, spending, core_signer, sdk, proto>>

TemplateMatch(network) ==
    /\ Built
    /\ result' = Called("template_match", network, {}, template_match(policy, network))
    /\ UNCHANGED <<dispatchVars, syncVars, clockVars, expiryVars, flightVars, bg, up, outbox,
                   policy, wallet, spending, core_signer, sdk, proto>>

PolicyInit == relay = {} /\ InitRunning
PolicyNext ==
    \/ \E d \in Descriptors, n \in Networks : FromDescriptor(d, n)
    \/ \E c \in ConcretePolicies, n \in Networks : FromPolicy(c, n)
    \/ \E n \in Networks : SelectableConditions(n)
    \/ \E signer \in Signers, n \in Networks : GetPolicyPathFromSigner(signer, n)
    \/ \E my_signers \in MySigners, n \in Networks :
            GetPolicyPathsFromSigners(my_signers, n)
    \/ \E n \in Networks : TemplateMatch(n)

PolicySpec == PolicyInit /\ [][PolicyNext]_vars

\* ---- spending from the wallet of a policy ------------------------------

\* the vaults that are spent from: a hold and a recovery vault with an
\* absolute timelock, a hold vault with a relative one, a vault whose script
\* has both timelocks, and a multisig vault
SpendConcretes == {ConcreteAnd(<<l>>, "Testnet") : l \in Timelocks}
SpendDescriptors ==
    {Tr(InternalKey, t, "Testnet") :
        t \in {AndV(MultiA(2, 2), After), AndV(AndV(Pk(1), Older), After),
               MultiA(2, 2)}}

\* the wallet of the policy sees an output of its descriptor
Receive(o) ==
    /\ Built
    /\ o \notin list_unspent(wallet)
    /\ \A q \in OutPoints : q < o => q \in list_unspent(wallet)
    /\ wallet' = Wallet([q \in list_unspent(wallet) \cup {o} |->
                            IF q = o THEN Unconfirmed ELSE wallet.utxos[q]],
                        wallet.checkpoint)
    /\ UNCHANGED <<dispatchVars, syncVars, clockVars, expiryVars, flightVars, bg, up, outbox,
                   policy, result, spending, core_signer, sdk, proto>>

\* the wallet syncs with the chain: a new checkpoint, in whose block the
\* outputs it had seen unconfirmed are confirmed
Sync ==
    /\ Built
    /\ LET height == IF wallet.checkpoint = None THEN 1 ELSE wallet.checkpoint[1] + 1 IN
       /\ height <= MaxHeight
       /\ wallet' = Wallet([o \in list_unspent(wallet) |->
                               IF wallet.utxos[o].confirmed THEN wallet.utxos[o]
                               ELSE Confirmed(height)],
                           Some(height))
    /\ UNCHANGED <<dispatchVars, syncVars, clockVars, expiryVars, flightVars, bg, up, outbox,
                   policy, result, spending, core_signer, sdk, proto>>

\* the paths a caller may give: for some of the selectable conditions, the
\* indexes of the items it selects
IndexLists == {<<0>>, <<1>>, <<0, 1>>}
PolicyPaths(p) ==
    LET conds == ConditionsOf(RootItem(p.descriptor), RootItem(p.descriptor).id)
        ids == {conds[i].path : i \in 1..Len(conds)}
    IN {None} \cup UNION {{Some(f) : f \in [D -> IndexLists]} : D \in SUBSET ids}

Amounts == {AmountMax, Custom(1), Custom(MaxUtxos + 1)}
\* the outputs a caller may name: none, or the first ones
OptionalOutPoints == {None} \cup {Some(1..k) : k \in 0..MaxUtxos}

\* what the coin selection chooses for a call: one of its selections, or
\* nothing when the coins do not pay the amount
Selections(w, args) ==
    IF CoinSelections(w, args) = {} THEN {{}} ELSE CoinSelections(w, args)

\* a call of spend on the policy, with what the coin selection chooses
Spend(args, selection) ==
    /\ Built
    /\ spending' = Spending(args, selection)
    /\ result' = Called("spend", policy.descriptor.network, {},
                        spend(policy, wallet, args, selection))
    /\ UNCHANGED <<dispatchVars, syncVars, clockVars, expiryVars, flightVars, bg, up, outbox,
                   policy, wallet, core_signer, sdk, proto>>

SpendInit == relay = {} /\ InitRunning
SpendNext ==
    \/ \E d \in SpendDescriptors : FromDescriptor(d, d.network)
    \/ \E c \in SpendConcretes : FromPolicy(c, c.network)
    \/ \E o \in OutPoints : Receive(o)
    \/ Sync
    \/ /\ Built
       /\ \E policy_path \in PolicyPaths(policy) :
            \E amount \in Amounts, utxos \in OptionalOutPoints,
               frozen_utxos \in OptionalOutPoints :
                \E selection \in Selections(wallet,
                                    SpendArgs(amount, utxos, frozen_utxos, policy_path)) :
                    Spend(SpendArgs(amount, utxos, frozen_utxos, policy_path), selection)

SpendSpec == SpendInit /\ [][SpendNext]_vars

\* ---- signers and their descriptors -------------------------------------

Fingerprint == {1, 2}
\* the derivation paths of the keys that are offered to a signer
DerivationPaths ==
    {None, Some(<<>>)}
    \cup {Some(<<Hardened(b)>>) : b \in {48, 86}}
    \cup {Some(<<first, second>>) :
            first \in {Hardened(48), Hardened(86), Normal(48)},
            second \in {Hardened(0), Hardened(1), Normal(0)}}
DescriptorPublicKeys ==
    {DescriptorPublicKey(f, path) : f \in Fingerprint, path \in DerivationPaths}
\* the maps of descriptors that are given at once: none, one or two, those
\* of two with paths of purpose and coin type
DescriptorMaps ==
    {<<>>}
    \cup {<<<<p, d>>>> : p \in AllPurposes, d \in DescriptorPublicKeys}
    \cup {<<<<BIP48_P2WSH, DescriptorPublicKey(f, Some(<<Hardened(48), Hardened(c)>>))>>,
            <<BIP86, DescriptorPublicKey(g, Some(<<Hardened(b), Hardened(e)>>))>>>> :
            f \in Fingerprint, g \in Fingerprint, b \in {48, 86}, c \in {0, 1}, e \in {0, 1}}

\* a signer is composed, or not when the call fails
Composed(op, network, outcome) ==
    /\ core_signer = NoSigner
    /\ core_signer' = outcome.signer
    /\ result' = Called(op, network, {}, Value(outcome.tag, <<>>))
    /\ UNCHANGED <<dispatchVars, syncVars, clockVars, expiryVars, flightVars, bg, up, outbox,
                   policy, wallet, spending, sdk, proto>>

SignerNew(fingerprint, descriptors, type, network) ==
    Composed("new", network, new(fingerprint, descriptors, type, network))
SignerAirgap(fingerprint, descriptors, network) ==
    Composed("airgap", network, airgap(fingerprint, descriptors, network))
SignerUnknown(fingerprint, descriptors, network) ==
    Composed("unknown", network, unknown(fingerprint, descriptors, network))
SignerFromSeed(seed, account, network) ==
    Composed("from_seed", network, from_seed(seed, account, network))
SignerFromColdcard(coldcard, network) ==
    Composed("from_coldcard", network, from_coldcard(coldcard, network))

\* a call on the signer that was composed
Added(op, outcome) ==
    /\ core_signer # NoSigner
    /\ core_signer' = outcome.signer
    /\ result' = Called(op, core_signer.network, {}, Value(outcome.tag, <<>>))
    /\ UNCHANGED <<dispatchVars, syncVars, clockVars, expiryVars, flightVars, bg, up, outbox,
                   policy, wallet, spending, sdk, proto>>

AddDescriptor(purpose, descriptor) ==
    Added("add_descriptor", add_descriptor(core_signer, purpose, descriptor))
AddDescriptors(descriptors) ==
    Added("add_descriptors", add_descriptors(core_signer, descriptors))

SignerInit == relay = {} /\ InitRunning
SignerNext ==
    \/ \E f \in Fingerprint, ds \in DescriptorMaps, type \in SignerTypes, n \in Networks :
            SignerNew(f, ds, type, n)
    \/ \E f \in Fingerprint, ds \in DescriptorMaps, n \in Networks : SignerAirgap(f, ds, n)
    \/ \E f \in Fingerprint, ds \in DescriptorMaps, n \in Networks : SignerUnknown(f, ds, n)
    \/ \E seed \in Fingerprint, account \in {None, Some(1), Some(SMARTVAULTS_ACCOUNT_INDEX)},
          n \in Networks : SignerFromSeed(seed, account, n)
    \/ \E xfp \in Fingerprint, chain \in Networks, n \in Networks,
          purposes \in {{BIP48_P2WSH}, {BIP48_P2WSH, BIP48_P2TR}} :
            SignerFromColdcard(Coldcard(xfp, chain, purposes), n)
    \/ \E p \in AllPurposes, d \in DescriptorPublicKeys : AddDescriptor(p, d)
    \/ \E ds \in DescriptorMaps : AddDescriptors(ds)

SignerSpec == SignerInit /\ [][SignerNext]_vars

\* ---- the vaults of the client ------------------------------------------

\* save_vault and accept_vault_invite: a vault that was not made before
SaveVault(vault_id, fate) ==
    /\ vault_id \notin sdk.made
    /\ sdk' = [internal_save_vault(sdk, vault_id, fate) EXCEPT !.made = @ \cup {vault_id}]
    /\ UNCHANGED <<dispatchVars, syncVars, clockVars, expiryVars, flightVars, bg, up, outbox,
                   policy, result, wallet, spending, core_signer, proto>>

\* the sync of the client stores a vault whose event another member, or
\* another device of the user, has published, and loads its wallet
VaultReceived(vault_id, author) ==
    /\ vault_id \notin sdk.made
    /\ sdk' = [sdk EXCEPT !.database = Put(@, vault_id, author),
                          !.vaults = Put(@, vault_id, vault_id),
                          !.loaded = @ \cup {vault_id},
                          !.made = @ \cup {vault_id},
                          !.last = VaultCall("sync", vault_id, FALSE, "Ok")]
    /\ UNCHANGED <<dispatchVars, syncVars, clockVars, expiryVars, flightVars, bg, up, outbox,
                   policy, result, wallet, spending, core_signer, proto>>

\* the subscriptions are renewed and the flag is taken down
Resubscribed ==
    /\ sdk.resubscribe
    /\ sdk' = [sdk EXCEPT !.resubscribe = FALSE, !.last = VaultCall("sync", 0, FALSE, "Ok")]
    /\ UNCHANGED <<dispatchVars, syncVars, clockVars, expiryVars, flightVars, bg, up, outbox,
                   policy, result, wallet, spending, core_signer, proto>>

DeleteVaultById(vault_id, fate) ==
    /\ sdk' = delete_vault_by_id(sdk, vault_id, fate)
    /\ UNCHANGED <<dispatchVars, syncVars, clockVars, expiryVars, flightVars, bg, up, outbox,
                   policy, result, wallet, spending, core_signer, proto>>

VaultInit == relay = {} /\ InitRunning
VaultNext ==
    \/ \E v \in VaultIds, fate \in Fates : SaveVault(v, fate)
    \/ \E v \in VaultIds, author \in {MyPublicKey, OtherPublicKey} : VaultReceived(v, author)
    \/ Resubscribed
    \/ \E v \in VaultIds, fate \in Fates : DeleteVaultById(v, fate)

VaultSpec == VaultInit /\ [][VaultNext]_vars

\* ---- proposals to and from their protobuf form --------------------------

\* the address texts of a message: of either network, or no address at all
AddressTexts ==
    {address_to_string(Address(n, "q")) : n \in Networks} \cup {<<"garbage">>}
ProtoRecipients == {ProtoRecipient(a, 1) : a \in AddressTexts}
RecipientLists ==
    UNION {[1..k -> ProtoRecipients] : k \in 0..MaxRecipients}
Texts == {"ok", "garbage"}
ProtoPendings ==
    {PendingSpending(d, a, p) : d \in Texts, a \in RecipientLists, p \in Texts}
    \cup {PendingProofOfReserve(d, p) : d \in Texts, p \in Texts}
    \cup {PendingKeyAgentPayment(d, r, period, "ok") :
            d \in Texts, r \in {None} \cup {Some(x) : x \in ProtoRecipients},
            period \in {None, Some(1)}}
ProtoProposals ==
    {ProtoProposal(p, m) :
        p \in {None} \cup {Some(x) : x \in ProtoPendings},
        m \in {magic(n) : n \in Networks} \cup {UnknownMagic}}
\* the pending proposals a client makes: their recipients are addresses
Pendings ==
    {PendingSpending("ok", a, "ok") :
        a \in UNION {[1..k -> {Recipient(Address(n, "q"), 1) : n \in Networks}] :
                        k \in 0..MaxRecipients}}
    \cup {PendingKeyAgentPayment("ok", Some(Recipient(Address(n, "q"), 1)), Some(1), "ok") :
            n \in Networks}

\* Proposal::try_from(message), on a message received
Decode(message) ==
    /\ proto' = Converted("try_from", message, TryFromProtoProposal(message))
    /\ UNCHANGED <<dispatchVars, syncVars, clockVars, expiryVars, flightVars, bg, up, outbox,
                   policy, result, wallet, spending, core_signer, sdk>>

\* ProtoProposal::from(&proposal) and back
Encode(pending, network) ==
    /\ proto' = Converted("from", FromProposal(pending, network),
                          TryFromProtoProposal(FromProposal(pending, network)))
    /\ UNCHANGED <<dispatchVars, syncVars, clockVars, expiryVars, flightVars, bg, up, outbox,
                   policy, result, wallet, spending, core_signer, sdk>>

ProtoInit == relay = {} /\ InitRunning
ProtoNext ==
    \/ \E message \in ProtoProposals : Decode(message)
    \/ \E pending \in Pendings, network \in Networks : Encode(pending, network)
ProtoSpec == ProtoInit /\ [][ProtoNext]_vars

\* the dispatcher with completed proposals that cannot be saved
CompletionInit == relay \in ScenarioUnsavedCompletion /\ InitRunning
CompletionSpec == CompletionInit /\ [][Next]_vars

\* the dispatcher with events that expire
ExpiryInit == relay = ScenarioExpiry /\ InitRunning
ExpiryNext ==
    \/ \E e \in AllEvents : Live(e)
    \/ TickStart
    \/ TickStep
    \/ \E e \in AllEvents : Expire(e)
ExpirySpec == ExpiryInit /\ [][ExpiryNext]_vars

(***************************************************************************)
(* Claims about sync()                                                     *)
(***************************************************************************)
\* a spawned thread that has not yet run through its Stop/Shutdown arm
Started(s) == sup[s].state \in {"spawned", "listening", "stop"}
\* every abort handle of spawned thread s has been signalled
AllAborted(s) == Tasks \subseteq sup[s].aborted

\* C2: of the sync() calls that find the guard false at most one starts the
\* four tasks and the notification loop, and no call starts anything while an
\* earlier start is live: at any time at most one spawned thread is started.
C2_AtMostOneStart == Cardinality({s \in Starts : Started(s)}) <= 1

\* C7 as stated: when an abort handle of a thread is signalled in its
\* Stop/Shutdown arm, that arm has already stored false into the guard.
C7_GuardClearedBeforeAbort ==
    [][\A s \in Starts :
        sup'[s].aborted # sup[s].aborted
            => \E i \in 1..(sup[s].arm - 1) : StopArm[i] = "syncing"]_vars

\* C7 amended: the Stop/Shutdown arm stores false into the guard only after
\* all four abort handles of its thread have been signalled.
C7_GuardClearedAfterAborts ==
    [][\A s \in Starts :
        (sup[s].state = "stop" /\ StopArm[sup[s].arm] = "syncing" /\ sup'[s] # sup[s])
            => AllAborted(s)]_vars

\* C7 witness: a Stop/Shutdown arm has run to its end
C7_ArmCompleted == \E s \in Starts : sup[s].state = "exited" /\ ~syncing

\* C8: when a sync() call reads the guard as false after an earlier start,
\* every task of every earlier start has been aborted.
C8_GuardFalseMeansAborted ==
    [][\A c \in Callers :
        (pc[c] = "idle" /\ pc'[c] = "fetch_update")
            => \A s \in Starts : sup[s].state # "none" => AllAborted(s)]_vars

(***************************************************************************)
(* Claims about the watermark                                              *)
(***************************************************************************)
\* the rows of the watermark table of one relay
WatermarkOf(d, relay_url) == {w \in d.last_relay_sync : w.relay_url = relay_url}

C13_SinceIsStoredWatermark ==
    [][\A s \in Starts :
        SupStart(s) =>
            \A r \in Relays :
                /\ Len(subs'[r].filters) = 4
                /\ subs'[r].read \in {"Ok", "Err"}
                /\ subs'[r].read = "Ok" => last_relay_sync_exists(db, r)
                /\ \A k \in 1..4 :
                    /\ subs'[r].read = "Ok"
                        => /\ subs'[r].filters[k].since = get_last_relay_sync(db, r)
                           /\ subs'[r].filters[k].since \in 1..now
                    /\ subs'[r].read = "Err" => subs'[r].filters[k].since = 0]_vars

\* C13 witness: after a restart r1 is subscribed since its watermark, and r2,
\* whose watermark was not read, since 0
C13_RestartedSinceWatermark ==
    /\ sup[1].state = "exited"
    /\ sup[2].state = "listening"
    /\ subs["r1"].read = "Ok"
    /\ \A k \in 1..4 : subs["r1"].filters[k].since = get_last_relay_sync(db, "r1")
    /\ subs["r2"].read = "Err"
    /\ \A k \in 1..4 : subs["r2"].filters[k].since = 0

\* C14: in each background loop an operation that returns an error is logged
\* and the loop goes on: to the next event of its list or to its sleep, never
\* to an end; after its sleep the loop starts its next iteration; no step of
\* a loop changes the guard or a caller of sync(); and after an error the
\* loop reaches its sleep and then the first operation of its next iteration.
C14_LoopsSurviveErrors ==
    /\ [][\A t \in Tasks :
            bg'[t] # bg[t] =>
                /\ bg'[t].at # "ended"
                /\ bg'[t].last = "Err"
                    => /\ bg'[t].errors = bg[t].errors + 1
                       /\ bg'[t].at \in {"sleep", "handle_event"}
                       /\ bg'[t].at = "handle_event" => bg[t].left > 1
                /\ bg'[t].last # "Err" => bg'[t].errors = bg[t].errors
                /\ bg[t].at = "sleep" => bg'[t].at = FirstOp(t)
                /\ syncing' = syncing /\ pc' = pc /\ sup' = sup]_vars
    /\ \A t \in Tasks :
            /\ (bg[t].last = "Err") ~> (bg[t].at = "sleep")
            /\ (bg[t].at = "sleep") ~> (bg[t].at = FirstOp(t))

\* C14 witness: the timechain loop has logged errors of both its operations
\* and is at the first operation of a later iteration; the re-drive loop has
\* logged an error too
C14_LoopsRunAfterErrors ==
    /\ bg["timechain_sync"].errors = 2
    /\ bg["timechain_sync"].at = "electrum_endpoint"
    /\ bg["pending_event_handler"].errors >= 1
    /\ bg["pending_event_handler"].at = "get_pending_events"
    /\ bg["metadata_sync"].errors >= 1

\* the events of the stream of thread s that went into handle_event
HandedOver(s) == delivered[s] \ logged

\* C12 as stated: when a matching EndOfStoredEvents makes the loop of a
\* thread write the watermark, handle_event has returned for every event its
\* stream handed over before, and no call of handle_event is in flight.
C12_NothingInFlightAtWatermark ==
    [][\A s \in Starts, r \in Relays :
        Eose(s, r, SubscriptionId(r)) =>
            /\ HandedOver(s) \subseteq returned[s]
            /\ \A t \in Starts : loop[t] = 0
            /\ pend = 0]_vars

\* C12 amended: when a matching EndOfStoredEvents makes the loop of a thread
\* write the watermark, handle_event has returned for every event its stream
\* handed over before, and that loop has no call of handle_event in flight
\* (the re-drive loop may have one).
C12_LoopIdleAtWatermark ==
    [][\A s \in Starts, r \in Relays :
        Eose(s, r, SubscriptionId(r)) =>
            /\ HandedOver(s) \subseteq returned[s]
            /\ loop[s] = 0]_vars

\* C12 witness: the watermark of r1 is written after the loop has handled
\* events, while the re-drive loop is inside handle_event
C12_WatermarkDuringRedrive ==
    /\ msg = [relay_url |-> "r1", subscription_id |-> "s1"]
    /\ WatermarkOf(db, "r1") # {}
    /\ returned[1] # {}
    /\ HandedOver(1) = returned[1]
    /\ loop[1] = 0
    /\ pend # 0

(***************************************************************************)
(* Claims about the dispatcher                                             *)
(***************************************************************************)
\* this step is a call of handle_event on e
FromRelay(e) == Live(e)
FromPending(e) == batch # <<>> /\ batch[NextIndex(batch)] = e.id /\ TickStep
Handles(e) == FromRelay(e) \/ FromPending(e)

Parked(d, e) == e.id \in Range(d.pending_events)
PositionIn(q, id) == CHOOSE i \in DOMAIN q : q[i] = id

\* the four kinds that wait for a shared key, when they name their vault
NamesVault(e) ==
    \/ e.kind = POLICY_KIND
    \/ e.kind = PROPOSAL_KIND /\ HasFirstEventId(e)
    \/ e.kind \in {APPROVED_PROPOSAL_KIND, COMPLETED_PROPOSAL_KIND} /\ HasSecondEventId(e)
VaultOf(e) ==
    IF e.kind = POLICY_KIND THEN e.id
    ELSE IF e.kind = PROPOSAL_KIND THEN extract_first_event_id(e)
    ELSE SecondEventId(e)
KeyUnknown(d, e) == get_shared_key(d, VaultOf(e)) = NoKey
Decryptable(d, e) == DecryptsWith(get_shared_key(d, VaultOf(e)), e)

\* C1: handling an event a second time, directly after the first handling of
\* the same event, leaves every table as the first handling left it and
\* returns no notification.
C1_SecondHandlingIsSilent ==
    [][\A e \in AllEvents :
        (call.id = e.id /\ Handles(e)) => (db' = db /\ ret'.tag # "Some")]_vars

\* C3 as stated: a deletion event with an e-tag naming a stored event of
\* another author changes no table but the record of the deletion event.
C3_ForeignDeletionChangesNothing ==
    [][\A e \in {x \in AllEvents : x.kind = KindEventDeletion} :
        (/\ Handles(e)
         /\ ~event_was_deleted(db, e.id)
         /\ \E i \in DOMAIN e.etags :
                /\ get_event_by_id(db, e.etags[i])
                /\ EventById(e.etags[i]).pubkey # e.pubkey)
        => db' = save_event(db, e)]_vars

\* C3 amended: a deletion event does not delete an event of another author
\* that one of its e-tags names (its entity and its deleted mark stay as they
\* were); and when no e-tag names a stored event of the deletion's own author,
\* no table changes but the record of the deletion event.
C3_ForeignDeletionKeepsEntity ==
    [][\A e \in {x \in AllEvents : x.kind = KindEventDeletion} :
        (Handles(e) /\ ~event_was_deleted(db, e.id)) =>
            /\ \A i \in DOMAIN e.etags :
                (/\ get_event_by_id(db, e.etags[i])
                 /\ EventById(e.etags[i]).pubkey # e.pubkey)
                => /\ EntityOf(db', e.etags[i]) = EntityOf(db, e.etags[i])
                   /\ event_was_deleted(db', e.etags[i])
                        = event_was_deleted(db, e.etags[i])
            /\ (\A i \in DOMAIN e.etags :
                    get_event_by_id(db, e.etags[i])
                        => EventById(e.etags[i]).pubkey # e.pubkey)
                => db' = save_event(db, e)]_vars

\* C3 witness: the deletion by alice that names the policy of another author
\* and her own shared signer has been handled: the policy stands, the shared
\* signer is gone.
C3_ForeignDeletionHandled ==
    /\ call.id = EvDeletionMixed.id
    /\ policy_exists(db, EvPolicy.id)
    /\ event_was_deleted(db, EvSharedSigner.id)

Approvals == {x \in AllEvents : x.kind = APPROVED_PROPOSAL_KIND /\ HasSecondEventId(x)}
Policies == {x \in AllEvents : x.kind = POLICY_KIND}
ApprovalOf(e) == NewApproval(extract_first_event_id(e), e.pubkey)

\* an approval handled while its vault's shared key is unknown is parked:
\* no approval is saved and nothing is notified
ApprovalParkedWithoutKey(e) ==
    (Handles(e) /\ ~event_was_deleted(db, e.id) /\ KeyUnknown(db, e))
        => /\ Parked(db', e)
           /\ ~approved_proposal_exists(db', e.id)
           /\ ret' = RetNone
           /\ sent' = sent

\* C4 as stated: once the policy and its shared key have arrived, the re-drive
\* of a parked approval saves it and returns NewApproval{proposal_id, approver}.
C4_RedriveSavesApproval ==
    [][\A e \in Approvals :
        /\ ApprovalParkedWithoutKey(e)
        /\ (/\ FromPending(e)
            /\ ~event_was_deleted(db, e.id)
            /\ ~approved_proposal_exists(db, e.id)
            /\ policy_exists(db, VaultOf(e))
            /\ Decryptable(db, e))
           => /\ approved_proposal_exists(db', e.id)
              /\ ret' = RetSome(ApprovalOf(e))]_vars

\* C4 amended: an approval that arrives before its vault's shared key is parked
\* with no approval saved and no notification; once the shared key has
\* arrived, its re-drive saves the approval and produces
\* NewApproval{proposal_id, approver}, provided the proposal it approves is in
\* the store at that moment.
C4_RedriveSavesApprovalOfKnownProposal ==
    [][\A e \in Approvals :
        /\ ApprovalParkedWithoutKey(e)
        /\ (/\ FromPending(e)
            /\ ~event_was_deleted(db, e.id)
            /\ ~approved_proposal_exists(db, e.id)
            /\ Decryptable(db, e)
            /\ proposal_exists(db, extract_first_event_id(e)))
           => /\ approved_proposal_exists(db', e.id)
              /\ ret' = RetSome(ApprovalOf(e))
              /\ sent'[ApprovalOf(e)] = sent[ApprovalOf(e)] + 1
              /\ [event_id |-> e.id, notification |-> ApprovalOf(e)]
                    \in db'.notifications]_vars

\* C4 witness: the approval, parked first, has been saved by the re-drive
C4_ParkedApprovalSaved ==
    /\ call = [src |-> "pending", id |-> EvApproved.id]
    /\ Parked(db, EvApproved)
    /\ approved_proposal_exists(db, EvApproved.id)
    /\ ret = RetSome(ApprovalOf(EvApproved))

\* C5: a policy event (with members, encrypted under the vault's key) handled
\* before the shared key is parked and is not in the store; its re-drive after
\* the shared key has been saved puts it in the store; and NewPolicy is sent
\* for a policy exactly once: never twice, and once whenever it is in the store.
C5_ParkedPolicyAppearsOnce ==
    [][\A e \in {x \in Policies : x.ptags # <<>>} :
        /\ sent'[NewPolicy(e.id)] <= 1
        /\ policy_exists(db', e.id) => sent'[NewPolicy(e.id)] = 1
        /\ (Handles(e) /\ ~event_was_deleted(db, e.id) /\ KeyUnknown(db, e))
            => /\ ~policy_exists(db', e.id)
               /\ Parked(db', e)
               /\ sent' = sent
        /\ (/\ FromPending(e)
            /\ ~event_was_deleted(db, e.id)
            /\ Decryptable(db, e))
            => /\ policy_exists(db', e.id)
               /\ sent'[NewPolicy(e.id)] = 1]_vars

\* C5 witness: the policy, parked first, is in the store after its re-drive,
\* with one NewPolicy sent
C5_ParkedPolicyVisible ==
    /\ call = [src |-> "pending", id |-> EvPolicy.id]
    /\ Parked(db, EvPolicy)
    /\ policy_exists(db, EvPolicy.id)
    /\ sent[NewPolicy(EvPolicy.id)] = 1

\* C6: once a CompletedProposal event has been handled (it is among the saved
\* events), the proposal its first e-tag names is not among the proposals.
C6_CompletedIsTerminal ==
    \A c \in {x \in AllEvents : x.kind = COMPLETED_PROPOSAL_KIND /\ HasFirstEventId(x)} :
        get_event_by_id(db, c.id) => ~proposal_exists(db, extract_first_event_id(c))

\* C15: when handle_event returns an error, the thread of the notification
\* loop stays as it was and the relays' events stay deliverable; an error in
\* the re-drive loop leaves the rest of the tick's events to be handled; and
\* every event that is still in the tick after an error is handled by the
\* re-drive loop.
C15_ErrorDoesNotStopTheLoops ==
    /\ [][\A e \in AllEvents :
            (Handles(e) /\ ret'.tag = "Err") =>
                /\ sup' = sup
                /\ relay' = relay
                /\ FromPending(e) => batch' = Tail(batch)]_vars
    /\ \A e \in UNION FairScenarios :
            (call.src = "pending" /\ ret.tag = "Err" /\ e.id \in Range(batch))
                ~> (call = [src |-> "pending", id |-> e.id])

\* C15 witness: the re-drive of the proposal returned an error, and the
\* policy, parked after it, is still in the tick
C15_ErrorWithEventsLeft ==
    /\ call = [src |-> "pending", id |-> EvProposal.id]
    /\ ret = RetErr
    /\ batch # <<>>
    /\ batch[Len(batch)] = EvPolicy.id
    /\ Listening

\* C16: handling an event that is expired changes no table and sends no
\* notification, in the relay path and in the re-drive path.
C16_ExpiredEventIsDropped ==
    [][\A e \in AllEvents :
        (Handles(e) /\ e.id \in expired) => (db' = db /\ sent' = sent)]_vars

\* the requests that are neither Disconnect nor GetPublicKey
OtherRequests ==
    {x \in AllEvents : x.kind = KindNostrConnect /\ x.ok
                        /\ RequestOf(x) \notin {"Disconnect", "GetPublicKey"}}
RequestsOf(d, e) == {q \in d.nostr_connect_requests : q.event_id = e.id}

\* C17: handling a request of a known session that is neither Disconnect nor
\* GetPublicKey: when the session is pre-authorized, sends one response and
\* leaves the request recorded as approved; otherwise sends no response and
\* leaves the request recorded as pending; either way the request is
\* recorded exactly once.
C17_RequestRecordedOnce ==
    [][\A e \in OtherRequests :
        (Live(e) /\ nostr_connect_session_exists(db, e.pubkey)) =>
            /\ is_nostr_connect_session_pre_authorized(db, e.pubkey)
                => /\ outbox'[e.id] = outbox[e.id] + 1
                   /\ RequestsOf(db', e) =
                        {[event_id |-> e.id, app_public_key |-> e.pubkey, approved |-> TRUE]}
            /\ ~is_nostr_connect_session_pre_authorized(db, e.pubkey)
                => /\ outbox' = outbox
                   /\ RequestsOf(db', e) =
                        {[event_id |-> e.id, app_public_key |-> e.pubkey, approved |-> FALSE]}
            /\ Cardinality(RequestsOf(db', e)) = 1]_vars

\* the descriptor text of the policy has one of the two words
HasLockWord ==
    \/ contains(to_string(policy.descriptor), "after")
    \/ contains(to_string(policy.descriptor), "older")
Asked == result.op = "selectable_conditions"

\* C19 as stated: selectable_conditions returns None if and only if neither
\* "after" nor "older" occurs in the descriptor text of the policy, and for
\* every policy in whose text one of them occurs it returns Some list.
C19_SomeForEveryTimelock ==
    Asked => /\ result.value.tag = "None" <=> ~HasLockWord
             /\ HasLockWord => result.value.tag = "Some"

\* C19 amended: selectable_conditions returns None if and only if neither
\* "after" nor "older" occurs in the descriptor text of the policy; for a
\* policy in whose text one of them occurs it returns Some list when a wallet
\* can be made of the descriptor for the network given, and the error of
\* that otherwise.
C19_NoneIffNoTimelock ==
    Asked => /\ result.value.tag = "None" <=> ~HasLockWord
             /\ HasLockWord =>
                    IF new_no_persist(policy.descriptor, result.network) = "Ok"
                    THEN result.value.tag = "Some"
                    ELSE result.value.tag = "Err"

\* C19 witness: a policy with older(..) was asked for its conditions on the
\* network of its keys and on the other one
C19_TimelockAskedOnBothNetworks ==
    /\ Asked
    /\ contains(to_string(policy.descriptor), "older")
    /\ result.network # policy.descriptor.network
    /\ result.value.tag = "Err"

\* thresh(3, pk(K1), pk(K2), pk(K3), older(2)) compiled under the unspendable
\* internal key
IsDecaying3of3 ==
    \E n \in Networks :
        policy = [descriptor |-> compile_tr(ConcreteThresh(3, 3, <<Older>>, n), Unspendable)]

\* C20 as stated: for that policy, asked on the network of its keys,
\* selectable_conditions returns a list of exactly one condition, which has
\* threshold 3 and 4 sub-paths.
C20_DecayingOneCondition ==
    (Asked /\ IsDecaying3of3 /\ result.network = policy.descriptor.network) =>
        /\ result.value.tag = "Some"
        /\ Len(result.value.list) = 1
        /\ result.value.list[1].thresh = 3
        /\ Len(result.value.list[1].sub_paths) = 4

\* C20 amended: for that policy, asked on the network of its keys,
\* selectable_conditions returns a list of exactly two conditions: the first,
\* at the root, has threshold 1 and 2 sub-paths (the key path and the script),
\* the second has threshold 3 and 4 sub-paths.
C20_DecayingTwoConditions ==
    (Asked /\ IsDecaying3of3 /\ result.network = policy.descriptor.network) =>
        /\ result.value.tag = "Some"
        /\ Len(result.value.list) = 2
        /\ result.value.list[1].thresh = 1
        /\ Len(result.value.list[1].sub_paths) = 2
        /\ result.value.list[1].path = RootItem(policy.descriptor).id
        /\ result.value.list[2].thresh = 3
        /\ Len(result.value.list[2].sub_paths) = 4
        /\ result.value.list[2].path = result.value.list[1].sub_paths[2]

\* C20 witness: the decaying policy was asked for its conditions on the
\* network of its keys and returned a list
C20_DecayingAsked ==
    /\ Asked
    /\ IsDecaying3of3
    /\ result.network = policy.descriptor.network
    /\ result.value.tag = "Some"

Selected == result.op = "get_policy_path_from_signer"
ConditionsAsked == selectable_conditions(policy, result.network).list
\* what the signer of the call matched
Found ==
    LET map == FoundMap(policy, CHOOSE signer \in result.signers : TRUE, result.network,
                        ConditionsAsked) IN
    [q \in DOMAIN map |-> map[q].sp]
ConditionPaths == {ConditionsAsked[i].path : i \in 1..Len(ConditionsAsked)}
InternalKeyPath == [q \in {ConditionsAsked[1].path} |-> <<0>>]

\* C21 as stated: whenever get_policy_path_from_signer returns Complete{path},
\* every selectable condition of the policy has its path as a key of the map,
\* and the index list under each key has as many entries as the threshold of
\* that condition.
C21_CompleteResolvesEveryCondition ==
    (Selected /\ result.value.tag = "Complete") =>
        \A i \in 1..Len(ConditionsAsked) :
            /\ ConditionsAsked[i].path \in DOMAIN result.value.path
            /\ Len(result.value.path[ConditionsAsked[i].path]) = ConditionsAsked[i].thresh

\* C21 amended: whenever get_policy_path_from_signer returns Complete{path},
\* either every selectable condition of the policy has its path as a key of
\* the map and the index list under each key has as many entries as the
\* threshold of that condition, or the map is the single entry of the
\* internal key path, {path of the first selectable condition -> [0]}.
C21_CompleteOrInternalKeyPath ==
    (Selected /\ result.value.tag = "Complete") =>
        \/ \A i \in 1..Len(ConditionsAsked) :
            /\ ConditionsAsked[i].path \in DOMAIN result.value.path
            /\ Len(result.value.path[ConditionsAsked[i].path]) = ConditionsAsked[i].thresh
        \/ result.value.path = InternalKeyPath

\* C21 witness: Complete was returned for the signer of the internal key of
\* a policy that has a second selectable condition
C21_CompleteByInternalKey ==
    /\ Selected
    /\ result.value.tag = "Complete"
    /\ Len(ConditionsAsked) = 2
    /\ result.value.path = InternalKeyPath
    /\ result.signers = {InternalKey}

\* a recovery policy: internal key K_int, recovery branch
\* and(multi(2, K_a, K_b), after(T)); K_a is key 1
IsRecovery ==
    \E n \in Networks :
        policy = [descriptor |-> Tr(InternalKey, AndV(MultiA(2, 2), After), n)]
RecoveryAskedForKa ==
    /\ Selected
    /\ IsRecovery
    /\ result.network = policy.descriptor.network
    /\ result.signers = {1}

\* C22 as stated: for the recovery policy and the signer of K_a,
\* get_policy_path_from_signer returns a Partial selector whose selected_path
\* maps the recovery branch to the index of K_a and whose missing_to_select
\* maps the recovery branch to the other branch label.
C22_RecoveryPartial ==
    RecoveryAskedForKa =>
        /\ result.value.tag = "Partial"
        /\ \E q \in DOMAIN result.value.path :
            /\ DOMAIN result.value.path = {q}
            /\ DOMAIN result.value.missing = {q}
            /\ Len(result.value.path[q]) = 1
            /\ Len(result.value.missing[q]) = 1

\* C22 amended: for the recovery policy and the signer of K_a, asked on the
\* network of the keys, get_policy_path_from_signer returns a Complete
\* selector whose path maps the root of the policy to [1], the index of the
\* recovery branch.
C22_RecoveryComplete ==
    RecoveryAskedForKa =>
        result.value = Complete([q \in {RootItem(policy.descriptor).id} |-> <<1>>])

\* C22 witness: the call was made for the recovery policy and the signer of
\* K_a and returned a selector
C22_RecoveryAsked == RecoveryAskedForKa /\ result.value.tag \in {"Complete", "Partial"}

\* the signer matches at least one selectable condition and not all of them
SomeNotAll ==
    /\ Selected
    /\ result.value.tag \notin {"Err", "None"}
    /\ DOMAIN Found # {}
    /\ DOMAIN Found # ConditionPaths

\* C23 as stated: when the signer matches at least one but not all selectable
\* conditions, get_policy_path_from_signer returns Partial whose selected_path
\* holds the matched entries plus the entry {path of the first selectable
\* condition -> [0]}; it returns Complete instead only when the found map is
\* exactly that single entry.
C23_PartialWithInternalKeyEntry ==
    SomeNotAll =>
        IF Found = InternalKeyPath THEN result.value.tag = "Complete"
        ELSE /\ result.value.tag = "Partial"
             /\ DOMAIN result.value.path = DOMAIN Found \cup DOMAIN InternalKeyPath
             /\ \A q \in DOMAIN Found \ DOMAIN InternalKeyPath :
                    result.value.path[q] = Found[q]
             /\ \A q \in DOMAIN InternalKeyPath : result.value.path[q] = <<0>>

\* C23 amended: when the signer matches at least one but not all selectable
\* conditions, get_policy_path_from_signer returns Partial whose selected_path
\* holds exactly the matched entries (the entry {path of the first selectable
\* condition -> [0]} is compared with, not added) and whose missing_to_select
\* holds the sub-paths of every unmatched condition; it returns Complete
\* instead exactly when the found map is that single entry.
C23_PartialWithMatchedEntries ==
    SomeNotAll =>
        IF Found = InternalKeyPath THEN result.value = Complete(Found)
        ELSE /\ result.value.tag = "Partial"
             /\ result.value.path = Found
             /\ DOMAIN result.value.missing = ConditionPaths \ DOMAIN Found
             /\ \A i \in 1..Len(ConditionsAsked) :
                    ConditionsAsked[i].path \notin DOMAIN Found =>
                        result.value.missing[ConditionsAsked[i].path] =
                            ConditionsAsked[i].sub_paths

\* C23 witness: a signer of the script matched the root only, and Partial was
\* returned with the other condition missing
C23_PartialForScriptSigner ==
    /\ SomeNotAll
    /\ result.value.tag = "Partial"
    /\ Found # InternalKeyPath
    /\ DOMAIN Found = DOMAIN InternalKeyPath

PathsAsked == result.op = "get_policy_paths_from_signers"
\* the selectors of the used signers that are not None
NonNoneSelectors ==
    {pp \in {get_policy_path_from_signer(policy, signer, result.network) :
                signer \in search_used_signers(policy, result.signers)} : pp.tag # "None"}

\* C24: get_policy_paths_from_signers returns Single(p) whenever all the
\* selectors of the used signers that are not None equal p, and returns
\* Multiple only when at least two distinct selectors that are not None exist.
C24_SingleForEqualSelectors ==
    (PathsAsked /\ result.value.tag # "Err") =>
        /\ \A pp \in NonNoneSelectors :
                NonNoneSelectors = {pp} => result.value = Returned("Single", <<pp>>, <<>>, <<>>, <<>>)
        /\ result.value.tag = "Multiple" => Cardinality(NonNoneSelectors) >= 2

TemplateAsked == result.op = "template_match"
\* the classification by the shape of the tree
ShapeOf(item) ==
    IF ~(/\ item.type = "Thresh"
         /\ item.threshold = 1
         /\ Len(item.items) = 2
         /\ item.items[1].type = "SchnorrSignature")
    THEN "None"
    ELSE LET b == item.items[2]
             Schnorr == {i \in 1..Len(b.items) : b.items[i].type = "SchnorrSignature"}
             Locks == {i \in 1..Len(b.items) :
                        b.items[i].type \in {"AbsoluteTimelock", "RelativeTimelock"}} IN
         IF b.type \in {"SchnorrSignature", "Multisig"} THEN "Multisig"
         ELSE IF b.type # "Thresh" THEN "None"
         ELSE IF b.threshold = 2 /\ Len(b.items) = 2 /\ Schnorr = {1} /\ Locks = {2}
         THEN "Hold"
         ELSE IF /\ b.threshold = 2
                 /\ Len(b.items) = 2
                 /\ b.items[1].type = "Multisig"
                 /\ Locks = {2}
         THEN "Recovery"
         ELSE IF /\ b.threshold < Len(b.items)
                 /\ b.threshold <= Cardinality(Schnorr)
                 /\ Cardinality(Locks) = Len(b.items) - Cardinality(Schnorr)
         THEN "Decaying"
         ELSE "None"

\* C25: for the tree of the policy template_match returns Multisig when the
\* root is Thresh{1,[Schnorr, b]} and b is a signature or a Multisig, Hold
\* when b is Thresh{2,[Schnorr, timelock]}, Recovery when b is
\* Thresh{2,[Multisig, timelock]}, Decaying when b is Thresh{t, items} with
\* t < |items|, t <= the number of signatures and the number of timelocks =
\* |items| - the number of signatures, and None in every other case.
C25_TemplateByShape ==
    (TemplateAsked /\ result.value.tag # "Err") =>
        result.value.tag = ShapeOf(RootItem(policy.descriptor))

\* C25 witness: template_match returned Decaying for a threshold of 2 over
\* three keys and a timelock
C25_DecayingMatched ==
    /\ TemplateAsked
    /\ result.value.tag = "Decaying"
    /\ policy.descriptor.tree = ThreshFrag(2, Pks(3) \o <<Older>>)

\* C26 as stated: template_match never returns an error for a policy that
\* was built: for every network argument its result is one of Multisig, Hold,
\* Recovery, Decaying or None.
C26_TemplateNeverErrs ==
    TemplateAsked => result.value.tag \in {"Multisig", "Hold", "Recovery", "Decaying", "None"}

\* C26 amended: for a policy that was built, template_match returns one of
\* Multisig, Hold, Recovery, Decaying or None when a wallet can be made of
\* the descriptor for the network argument, and the error of that
\* otherwise.
C26_TemplateErrsOnOtherNetwork ==
    TemplateAsked =>
        IF new_no_persist(policy.descriptor, result.network) = "Ok"
        THEN result.value.tag \in {"Multisig", "Hold", "Recovery", "Decaying", "None"}
        ELSE result.value.tag = "Err"

\* C26 witness: template_match was asked on the network that is not that of
\* the keys of the policy
C26_AskedOnOtherNetwork ==
    /\ TemplateAsked
    /\ result.network # policy.descriptor.network
    /\ result.value.tag = "Err"

\* spend was called, and the arguments and the wallet of the call
SpendCalled == result.op = "spend"
Tag == result.value.tag
CurrentHeight == latest_checkpoint(wallet)[1]
\* the six preconditions of spend, violated
NoUtxo == list_unspent(wallet) = {}
NoCheckpoint == latest_checkpoint(wallet) = None
AllFrozen ==
    /\ spending.args.frozen_utxos # None
    /\ \A o \in list_unspent(wallet) : o \in spending.args.frozen_utxos[1]
EmptySelection == spending.args.utxos = Some({})
\* what the builder made of the call: a transaction, if the wallet has
\* outputs and a checkpoint and the builder accepts the arguments
Psbt ==
    IF \/ NoUtxo \/ NoCheckpoint
       \/ spending.args.utxos # None /\ ~(spending.args.utxos[1] \subseteq list_unspent(wallet))
    THEN [ok |-> FALSE, tx |-> NoTx]
    ELSE finish(policy, wallet, CurrentHeight, spending.args, spending.selection)
AbsoluteTooEarly(psbt) == psbt.ok /\ psbt.tx.lock_time > CurrentHeight
RelativeTooEarly(psbt) ==
    /\ psbt.ok
    /\ psbt.tx.sequence # 0
    /\ \E o \in psbt.tx.input :
          \/ ~wallet.utxos[o].confirmed
          \/ CurrentHeight < wallet.utxos[o].height + psbt.tx.sequence

\* C27: when several preconditions of spend are violated at once, spend
\* returns the error of the first violated one, in the order: no UTXO, no
\* checkpoint, every UTXO frozen, empty selection, absolute timelock,
\* relative timelock; and it returns no Proposal.
C27_FirstViolatedPrecondition ==
    SpendCalled =>
        LET psbt == Psbt IN
        IF NoUtxo THEN Tag = "NoUtxosAvailable: wallet not contains any UTXO"
        ELSE IF NoCheckpoint THEN Tag = "CheckpointNotAvailable"
        ELSE IF AllFrozen THEN Tag = "NoUtxosAvailable: frozen by other proposals"
        ELSE IF EmptySelection THEN Tag = "NoUtxosSelected"
        ELSE IF AbsoluteTooEarly(psbt) THEN Tag = "AbsoluteTimelockNotSatisfied"
        ELSE IF RelativeTooEarly(psbt) THEN Tag = "RelativeTimelockNotSatisfied"
        ELSE TRUE

\* C27 witness: spend was called with a transaction whose absolute and whose
\* relative timelock are both not satisfied, and returned the error of the
\* absolute one.
C27_BothTimelocksTooEarly ==
    /\ SpendCalled
    /\ ~AllFrozen /\ ~EmptySelection
    /\ AbsoluteTooEarly(Psbt) /\ RelativeTooEarly(Psbt)
    /\ Tag = "AbsoluteTimelockNotSatisfied"

\* the absolute locktime of a policy: that of its after() fragment
RECURSIVE Locktimes(_)
Locktimes(item) ==
    IF item.type = "AbsoluteTimelock" THEN {item.id[2]}
    ELSE UNION {Locktimes(item.items[i]) : i \in 1..Len(item.items)}
BelowLocktime ==
    /\ has_absolute_timelock(policy)
    /\ ~NoCheckpoint
    /\ \E t \in Locktimes(RootItem(policy.descriptor)) : CurrentHeight < t
\* the path of the call selects the absolute timelock of the policy
PathSelectsLocktime ==
    LET cond == get_condition(RootItem(policy.descriptor),
                              IF spending.args.policy_path = None THEN [id \in {} |-> <<>>]
                              ELSE spending.args.policy_path[1])
    IN cond.ok /\ cond.timelock \in Locktimes(RootItem(policy.descriptor))

\* C28: for a policy with has_absolute_timelock, every spend call made while
\* the current height is below the absolute locktime of the policy returns
\* AbsoluteTimelockNotSatisfied and no Proposal, whichever policy path and
\* UTXOs are selected.
C28_RefusedBelowLocktime ==
    SpendCalled /\ ~NoUtxo /\ ~AllFrozen /\ ~EmptySelection /\ BelowLocktime
        => Tag = "AbsoluteTimelockNotSatisfied"

\* C28 amended: for a policy with has_absolute_timelock, every spend call
\* made while the current height is below the absolute locktime of the
\* policy, that builds a PSBT for a policy path which selects the absolute
\* timelock, returns AbsoluteTimelockNotSatisfied and no Proposal, whichever
\* UTXOs are selected; a call with a path that does not select the timelock
\* is not refused for it.
C28_RefusedOnTimelockedPath ==
    SpendCalled /\ ~NoUtxo /\ ~AllFrozen /\ ~EmptySelection /\ BelowLocktime
        => LET psbt == Psbt IN
           psbt.ok => IF PathSelectsLocktime
                      THEN Tag = "AbsoluteTimelockNotSatisfied"
                      ELSE Tag \in {"RelativeTimelockNotSatisfied", "Proposal"}

\* C28 witness: below the locktime, spend was called with manually selected
\* UTXOs and a path through the timelock, and was refused.
C28_RefusedWithSelectedUtxos ==
    /\ SpendCalled /\ BelowLocktime /\ Psbt.ok /\ PathSelectsLocktime
    /\ spending.args.utxos # None
    /\ Tag = "AbsoluteTimelockNotSatisfied"

\* C29: in every CoreSigner that new, airgap, unknown, from_seed,
\* from_coldcard, add_descriptor and add_descriptors make, each stored
\* descriptor has the fingerprint of the signer as its master fingerprint, a
\* derivation path whose first child is the purpose, hardened, and whose
\* second child is hardened 0 on mainnet and hardened 1 on the other
\* networks.
C29_StoredDescriptorsChecked ==
    \A purpose \in DOMAIN core_signer.descriptors :
        LET descriptor == core_signer.descriptors[purpose] IN
        /\ master_fingerprint(descriptor) = core_signer.fingerprint
        /\ full_derivation_path(descriptor) # None
        /\ Len(full_derivation_path(descriptor)[1]) >= 2
        /\ full_derivation_path(descriptor)[1][1] = Hardened(as_u32(purpose))
        /\ full_derivation_path(descriptor)[1][2]
                = Hardened(IF core_signer.network = "Bitcoin" THEN 0 ELSE 1)

\* C29 witness: add_descriptors stored one descriptor of the map it was given
\* and refused the next for its coin type.
C29_SecondDescriptorRefused ==
    /\ result.op = "add_descriptors"
    /\ result.value.tag = "NetworkNotMatch"
    /\ BIP48_P2WSH \in DOMAIN core_signer.descriptors
    /\ core_signer.type = "Seed"

\* a call of delete_vault_by_id on a stored vault, by a client that has read
\* the event of the vault and is not its author
DeletesNotOwned(v) ==
    /\ sdk'.last.op = "delete_vault_by_id"
    /\ sdk'.last.vault_id = v
    /\ sdk'.last.read
    /\ v \in DOMAIN sdk.vaults
    /\ sdk.database[sdk.vaults[v]] # MyPublicKey

\* C30: delete_vault_by_id by a client whose public key is not the author of
\* the publish event of the vault returns TryingToDeleteNotOwnedEvent,
\* publishes no EventDeletion and leaves the vault in the store, its wallet
\* loaded and the resubscribe flag as they were.
C30_NotOwnedVaultKept ==
    [][\A v \in VaultIds :
          DeletesNotOwned(v) =>
              /\ sdk'.last.ret = "TryingToDeleteNotOwnedEvent"
              /\ sdk'.published = sdk.published
              /\ sdk'.vaults = sdk.vaults
              /\ sdk'.loaded = sdk.loaded
              /\ sdk'.resubscribe = sdk.resubscribe]_vars

\* C30 witness: the deletion of a vault of another author was refused while
\* the resubscribe flag was up; the vault is stored and its wallet loaded.
C30_RefusedForOtherAuthor ==
    /\ sdk.last.op = "delete_vault_by_id"
    /\ sdk.last.ret = "TryingToDeleteNotOwnedEvent"
    /\ sdk.last.vault_id \in DOMAIN sdk.vaults
    /\ sdk.last.vault_id \in sdk.loaded
    /\ sdk.resubscribe

\* the policy ids that SharedKey events name
KeyedPolicies ==
    {extract_first_event_id(e) :
        e \in {x \in AllEvents : x.kind = SHARED_KEY_KIND /\ HasFirstEventId(x)}}
KeysOf(d, policy_id) == {k \in d.shared_keys : k.policy_id = policy_id}

RECURSIVE PreOrder(_)
PreOrder(item) ==
    <<item>> \o Concat([i \in 1..Len(item.items) |-> PreOrder(item.items[i])])
HasChoice(item) == item.type = "Thresh" /\ item.threshold < Len(item.items)
ChoiceNodes == SelectSeq(PreOrder(RootItem(policy.descriptor)), HasChoice)

\* C32: for a policy with a timelock, the list that selectable_conditions
\* returns has exactly one entry for each Thresh node of the satisfiable-item
\* tree with threshold < number of items, and none for any other node, in
\* pre-order; the path of an entry is the id of its node, its sub_paths are
\* the ids of the items of the node in order, so thresh < |sub_paths|.
C32_OneEntryPerChoiceNode ==
    (Asked /\ result.value.tag = "Some") =>
        LET list == result.value.list
            nodes == ChoiceNodes IN
        /\ has_timelock(policy)
        /\ Len(list) = Len(nodes)
        /\ \A i \in 1..Len(nodes) :
            /\ list[i].path = nodes[i].id
            /\ list[i].thresh = nodes[i].threshold
            /\ list[i].sub_paths
                = [j \in 1..Len(nodes[i].items) |-> nodes[i].items[j].id]
            /\ list[i].thresh < Len(list[i].sub_paths)

\* C32 witness: the conditions of a policy whose tree has a Thresh with a
\* choice below a Thresh without one were asked for: two entries, none for
\* the Thresh without a choice
C32_NestedConditionsAsked ==
    /\ Asked
    /\ result.value.tag = "Some"
    /\ Len(result.value.list) = 2
    /\ \E i \in 1..Len(PreOrder(RootItem(policy.descriptor))) :
        LET node == PreOrder(RootItem(policy.descriptor))[i] IN
        /\ node.type = "Thresh"
        /\ node.threshold = Len(node.items)
        /\ \E j \in 1..Len(node.items) : HasChoice(node.items[j])

\* spend got as far as a built transaction
PsbtBuilt(psbt) == ~AllFrozen /\ ~EmptySelection /\ psbt.ok
\* current_height.saturating_sub(height)
saturating_sub(a, b) == IF a >= b THEN a - b ELSE 0
\* the inputs with a height-locked or time-locked sequence
LockedInputs(psbt) == IF psbt.tx.sequence # 0 THEN psbt.tx.input ELSE {}
SomeInputTooYoung(psbt) ==
    \E o \in LockedInputs(psbt) :
        \/ ~wallet.utxos[o].confirmed
        \/ saturating_sub(CurrentHeight, wallet.utxos[o].height) < psbt.tx.sequence

\* C33 as stated: for a policy with a timelock, spend returns
\* RelativeTimelockNotSatisfied if some input of the built transaction has a
\* locked sequence and its UTXO is unconfirmed or younger than the sequence
\* value; if every such input is confirmed and old enough, spend does not
\* return that error.
C33_RefusedForEveryYoungInput ==
    (SpendCalled /\ has_timelock(policy)) =>
        LET psbt == Psbt IN
        PsbtBuilt(psbt) =>
            IF SomeInputTooYoung(psbt)
            THEN Tag = "RelativeTimelockNotSatisfied"
            ELSE Tag # "RelativeTimelockNotSatisfied"

\* C33 amended: for a policy with a timelock, spend returns
\* RelativeTimelockNotSatisfied if the absolute timelock of the built
\* transaction is satisfied and some input of it has a locked sequence and an
\* UTXO that is unconfirmed or younger than the sequence value; if every such
\* input is confirmed and old enough, spend does not return that error.
C33_RefusedForYoungInputAfterAbsolute ==
    (SpendCalled /\ has_timelock(policy)) =>
        LET psbt == Psbt IN
        PsbtBuilt(psbt) =>
            IF SomeInputTooYoung(psbt)
            THEN ~AbsoluteTooEarly(psbt) => Tag = "RelativeTimelockNotSatisfied"
            ELSE Tag # "RelativeTimelockNotSatisfied"

\* C33 witness: spend was refused for a confirmed input whose age is below
\* the sequence value, with the absolute timelock satisfied
C33_RefusedForConfirmedInput ==
    /\ SpendCalled
    /\ has_timelock(policy)
    /\ PsbtBuilt(Psbt)
    /\ ~AbsoluteTooEarly(Psbt)
    /\ \A o \in Psbt.tx.input : wallet.utxos[o].confirmed
    /\ SomeInputTooYoung(Psbt)
    /\ Tag = "RelativeTimelockNotSatisfied"

ConnectMessages == {x \in AllEvents : x.kind = KindNostrConnect}

Completions == {x \in AllEvents : x.kind = COMPLETED_PROPOSAL_KIND /\ HasFirstEventId(x)}

\* C35: handling a CompletedProposal event removes the pending proposal named
\* by its first e-tag only when the completed proposal is decrypted with the
\* shared key of the vault and saved; when the second e-tag is missing, the
\* shared key is unknown (the event is parked) or the decryption fails, the
\* pending proposal is still in the store.
C35_RemovedOnlyWhenCompletionSaved ==
    [][\A c \in Completions :
        (Handles(c) /\ proposal_exists(db, extract_first_event_id(c))
            /\ ~proposal_exists(db', extract_first_event_id(c)))
                => completed_proposal_exists(db', c.id)]_vars

\* the proposal and its approval have both arrived while the shared key of
\* the vault was known: the proposal is saved, the approval was handled and
\* had no key to wait for
BothArrivedWithKey ==
    /\ ~KeyUnknown(db, EvApproved)
    /\ proposal_exists(db, EvProposal.id)
    /\ get_event_by_id(db, EvApproved.id)
    /\ ~Parked(db, EvApproved)

\* C36: in whichever order a Proposal event and an ApprovedProposal event for
\* it arrive while the shared key of the vault is known, the approval is
\* eventually recorded in the store and NewApproval is eventually emitted.
C36_ApprovalRecordedInEveryOrder ==
    BothArrivedWithKey
        ~> (/\ approved_proposal_exists(db, EvApproved.id)
            /\ sent[ApprovalOf(EvApproved)] >= 1)

Deletions == {x \in AllEvents : x.kind = KindEventDeletion}

\* C37: once an EventDeletion has been handled, an event that it names and
\* that has the author of the deletion is not materialised in the store and
\* produces no notification when it is handled, whether it had been received
\* before the deletion or arrives only after it.
C37_DeletionHoldsInEitherOrder ==
    [][\A del \in Deletions : \A i \in DOMAIN del.etags :
        LET x == EventById(del.etags[i]) IN
        (x.pubkey = del.pubkey /\ get_event_by_id(db, del.id) /\ Handles(x))
            => /\ ret'.tag # "Some"
               /\ EntityOf(db', x.id) = NoEntity]_vars

\* the node of the selectable condition with this path
NodeOf(path) ==
    LET nodes == ChoiceNodes IN
    nodes[CHOOSE i \in 1..Len(nodes) : nodes[i].id = path]
\* the items of a node whose subtree mentions the fingerprint, by index
Mentioning(node, fingerprint) ==
    {i \in 0..(Len(node.items) - 1) : fingerprint \in Fingerprints(node.items[i + 1])}

\* C38: in every result of get_policy_path_from_signer, each index list in
\* path / selected_path has exactly one element, the largest child index of
\* that condition whose subtree mentions the fingerprint of the signer; and
\* when the signer matches every selectable condition, the result is
\* Complete only if every selectable condition has threshold 1.
C38_LargestMentioningChild ==
    (Selected /\ result.value.tag \in {"Complete", "Partial"}) =>
        LET signer == CHOOSE s \in result.signers : TRUE
            path == result.value.path IN
        /\ \A q \in DOMAIN path :
            LET idxs == Mentioning(NodeOf(q), signer) IN
            /\ idxs # {}
            /\ path[q] = <<CHOOSE i \in idxs : \A j \in idxs : j <= i>>
        /\ (DOMAIN path = ConditionPaths /\ result.value.tag = "Complete")
            => \A i \in 1..Len(ConditionsAsked) : ConditionsAsked[i].thresh = 1

SpendingDecoded ==
    /\ proto.op = "try_from"
    /\ proto.message.proposal # None
    /\ proto.message.proposal[1].variant = "Spending"

\* C39: decoding a pending Spending proposal from its protobuf form either
\* yields a proposal with as many recipients as the message has, or fails
\* with an error: a recipient whose address does not parse or is not of the
\* network of the proposal is never silently left out.
C39_EveryRecipientDecodedOrError ==
    SpendingDecoded =>
        \/ proto.value.tag # "Ok"
        \/ Len(proto.value.proposal[1].addresses)
            = Len(proto.message.proposal[1].addresses)

\* the event of a vault among the events that were published
VaultPublished(s, v) ==
    \E i \in 1..Len(s.published) : s.published[i] = [kind |-> "Vault", id |-> v]

\* C40: internal_save_vault is all-or-nothing: when it returns an error no
\* vault event has been published and no vault entry is stored; when it
\* returns Ok the event has been published, the wallet of the vault is loaded
\* and the vault is stored.
C40_SaveVaultAllOrNothing ==
    [][\A v \in VaultIds, fate \in Fates :
          SaveVault(v, fate) =>
              /\ sdk'.last.ret = "Err" =>
                    /\ sdk'.published = sdk.published
                    /\ v \notin DOMAIN sdk'.vaults
              /\ sdk'.last.ret = "Ok" =>
                    /\ VaultPublished(sdk', v)
                    /\ v \in sdk'.loaded
                    /\ v \in DOMAIN sdk'.vaults]_vars

\* C18: no policy in the store has an empty member set; and handling a Policy
\* event without a public-key tag, from the relays or from the re-drive,
\* saves no policy, returns no notification and sends and records none.
C18_NoPolicyWithoutMembers ==
    [][/\ \A p \in db'.policies : p.members # {}
       /\ \A e \in {x \in Policies : x.ptags = <<>>} :
            Handles(e) =>
                /\ ~policy_exists(db', e.id)
                /\ ret'.tag # "Some"
                /\ sent' = sent
                /\ db'.notifications = db.notifications]_vars

\* C18 witness: the policy event without a public-key tag has been re-driven
\* with its shared key in the store, and no policy was saved
C18_MemberlessPolicyRedriven ==
    /\ call = [src |-> "pending", id |-> EvPolicyNoMembers.id]
    /\ shared_key_exists_for_policy(db, EvPolicyNoMembers.id)
    /\ Parked(db, EvPolicyNoMembers)
    /\ ~policy_exists(db, EvPolicyNoMembers.id)
    /\ ret = RetNone

\* C9: an event of the four kinds that names its vault and is handled while the
\* vault's shared key is unknown is parked; a parked event keeps its place in
\* the queue in every step; and once the shared key is known, the re-drive
\* loop calls handle_event on it.
C9_ParkedUntilKeyThenReplayed ==
    /\ [][\A e \in {x \in AllEvents : NamesVault(x)} :
            /\ (Handles(e) /\ ~event_was_deleted(db, e.id) /\ KeyUnknown(db, e))
                => Parked(db', e)
            /\ Parked(db, e)
                => /\ Parked(db', e)
                   /\ PositionIn(db'.pending_events, e.id)
                        = PositionIn(db.pending_events, e.id)]_vars
    /\ \A e \in {x \in AllEvents : NamesVault(x)} :
            (Parked(db, e) /\ ~KeyUnknown(db, e))
                ~> (call = [src |-> "pending", id |-> e.id])

\* C9 witness: a proposal parked for want of the key is still in the queue
\* once the key is there, and the re-drive loop has replayed and saved it
C9_ParkedThenReplayed ==
    /\ call = [src |-> "pending", id |-> EvProposal.id]
    /\ Parked(db, EvProposal)
    /\ ~KeyUnknown(db, EvProposal)
    /\ proposal_exists(db, EvProposal.id)

\* C10: each turn of the re-drive loop handles the event that was parked first
\* among those the tick has still to handle: the tick starts from the whole
\* queue, which is in parking order, and works from its front.
C10_RedriveIsFifo ==
    [][/\ (batch = <<>> /\ batch' # <<>>) => batch' = db.pending_events
       /\ (batch # <<>> /\ batch' # batch)
            => /\ call'.src = "pending"
               /\ \A i \in DOMAIN batch' :
                    PositionIn(db.pending_events, call'.id)
                        < PositionIn(db.pending_events, batch'[i])
               /\ Len(batch') = Len(batch) - 1]_vars

\* C10 witness: within one tick the event parked second is handled second
C10_SecondParkedHandledSecond ==
    /\ Len(db.pending_events) >= 3
    /\ call = [src |-> "pending", id |-> db.pending_events[2]]
    /\ batch = SubSeq(db.pending_events, 3, Len(db.pending_events))

====
